---- MODULE Spec2Model ----
(***************************************************************************)
(* Model of the futures monitor: symbol state store, decision planner,     *)
(* simulated trade state machine and live trader adapter.                   *)
(*                                                                          *)
(* Numbers are fixed point.                                                 *)
(*   price      : 1/100 of a quote unit        (100.50 is 10050)            *)
(*   triggerPct : 1/100 of a percent           (0.08 % is 8)                *)
(*   USD        : 1/1000000 of a dollar        (0.03 USD is 30000)          *)
(*   ROI pct    : 1/10000 of a percent         (8 % is 80000)               *)
(*   quantity   : 1/1000000 of a contract                                   *)
(*   time       : milliseconds                                              *)
(* JavaScript null is Null, NaN is NaN; a nullable object is NullRec.       *)
(***************************************************************************)
EXTENDS Integers, Sequences, FiniteSets, TLC

VARIABLES
  booted,                \* boot() went past hydrateHistory / bootstrap
  now,                   \* last value read from Date.now() by tick()
  symbolState,           \* symbol -> SymbolState (binance.js symbolState map)
  decisionPlanBySymbol,  \* symbol -> DecisionPlan or NullRec
  simStateBySymbol,      \* symbol -> SimState
  plannedCycles,         \* history: symbol -> cycleIds a plan object was created for
  replannedCycles,       \* history: symbol -> cycleIds a plan object was created for again
  planTrace,             \* history: symbol -> what syncDecisionPlan did in the last tick
  openedCount,           \* history: symbol -> number of trades maybeOpenTrade opened
  lastOp,                \* history: kind of the last handler that ran
  lastEvent,             \* history: last stream event applied
  repeated,              \* history: the last event equals the one applied just before it
  alive,                 \* the process runs: its timers fire and its socket delivers
  wsLastError,           \* wsLastError: Null or the tag of the message
  openCall,              \* history: input and result of the last maybeOpenTrade call made
                         \* on its own
  symbolTickCounter,     \* index.js: symbolTickCounter of the one symbol of the bot
  futuresBotState,       \* index.js: futuresBotState (activeTrade, tradeHistory, stats)
  futuresCooldownUntilTick, \* index.js: futuresCooldownUntilTick, Null while unset
  lastFuturesClose,      \* history: tick, reason and result of the last close of the bot
  closedLog,             \* history: every ClosedTrade closeTrade returned, per symbol, in
                         \* closing order
  envSimConfig,          \* SIM_CONFIG of the process, built from the environment
  feeRateBySymbolPct,    \* feeRateBySymbolPct: symbol -> fee rate per side, in 1/100 %
  ws,                    \* ws: NullRec, or the socket with its readyState and the code
                         \* its close() was called with
  wsConnected,           \* wsConnected
  wsLastMessageAt,       \* wsLastMessageAt: 0 until the first frame
  reconnectTimer,        \* reconnectTimer: Null, or the delay the timeout was set with
  reconnectAttempt,      \* reconnectAttempt
  pingTimer,             \* pingTimer is set
  wsClock,               \* Date.now() as the socket handlers and the watchdog read it
  wsTrace,               \* history: last socket step, when the socket opened, closes
                         \* since the last open, and whether the last tick met a stale feed;
                         \* sockets: sockets created and still CONNECTING or OPEN;
                         \* timers: setTimeout calls of scheduleReconnect not yet fired
  incomeStats,           \* LiveTrader.incomeStats: market symbol -> IncomeStats
  seenIncomeKeys,        \* LiveTrader.seenIncomeKeys
  incomeCursorTs,        \* LiveTrader.incomeCursorTs
  incomeInFlight,        \* startTime of the /fapi/v1/income requests awaiting their response
  replayedRows,          \* history: how syncIncome met rows whose key was already seen
  incomeTrace,           \* history: the last step of syncIncome and the rows it met
  symbolMeta,            \* LiveTrader.symbolMeta: market symbol -> meta or NullRec
  qtyRaw,                \* raw quantity handed to normalizeQuantity by the last sizing
  qtyOut,                \* what normalizeQuantity returned for it
  orderQty,              \* quantity of the order sized from it, Null when none
  traderLeverage,        \* LiveTrader.leverage, from the options of the constructor
  maxLeverageBySymbol,   \* LiveTrader.maxLeverageBySymbol: market symbol -> max or Null
  effectiveLeverageBySymbol, \* LiveTrader.effectiveLeverageBySymbol: -> leverage or Null
  leverageCalls,         \* market symbol -> the configureLeverage call: its candidates,
                         \* the requests answered so far and what it returned
  gtxFallbackMarket,     \* LiveTrader.gtxFallbackMarket, from LIVE_GTX_FALLBACK_MARKET
  gtxCall,               \* the openPosition call followed request by request through
                         \* its entry order: where it waits and what it holds
  gtxVenue,              \* the venue's books for the orders of that call
  ready,                 \* LiveTrader.ready
  isDualSidePosition,    \* LiveTrader.isDualSidePosition: the account is in hedge mode
  lastSync,              \* history: the last answer syncPositions resumed with, how many
                         \* it met so far and the markets tracked before it
  inFlight,              \* LiveTrader.inFlight: market symbols with an open/close under way
  activePositions,       \* LiveTrader.activePositions: market symbol -> position or NullRec
  positionSnapshot,      \* LiveTrader.positionSnapshot: market symbol -> position or NullRec
  lastActionBySymbol,    \* LiveTrader.lastActionBySymbol: market symbol -> tag of the text
  lastError,             \* LiveTrader.lastError: Null or the tag of the message
  orderCalls,            \* market symbol -> the openPosition/closePosition calls between
                         \* inFlight.add and inFlight.delete, each at its await
  positionRiskInFlight,  \* the /fapi/v2/positionRisk requests awaiting their response
  venuePosition,         \* the venue's books: market symbol -> signed position amount
  liveEvent,             \* history: what the last live trader step was and returned
  liveRequests           \* history: order calls and timer syncs that sent a request so far

storeVars  == <<booted, symbolState, lastOp, lastEvent, repeated>>
tickVars   == <<now, decisionPlanBySymbol, simStateBySymbol, plannedCycles, replannedCycles,
               planTrace, openedCount, openCall, closedLog, envSimConfig,
               feeRateBySymbolPct, alive, wsLastError>>
incomeVars == <<incomeStats, seenIncomeKeys, incomeCursorTs, incomeInFlight, replayedRows,
               incomeTrace>>
qtyVars    == <<symbolMeta, qtyRaw, qtyOut, orderQty, traderLeverage, maxLeverageBySymbol,
               effectiveLeverageBySymbol, leverageCalls>>
wsVars     == <<ws, wsConnected, wsLastMessageAt, reconnectTimer, reconnectAttempt,
               pingTimer, wsClock, wsTrace>>
gtxVars    == <<gtxFallbackMarket, gtxCall, gtxVenue>>
botVars    == <<symbolTickCounter, futuresBotState, futuresCooldownUntilTick, lastFuturesClose>>
traderVars == <<gtxFallbackMarket, gtxCall, gtxVenue, ready, isDualSidePosition, lastSync, inFlight, activePositions, positionSnapshot, lastActionBySymbol,
               lastError, orderCalls, positionRiskInFlight, venuePosition, liveEvent,
               liveRequests>>
vars == <<booted, now, symbolState, decisionPlanBySymbol, simStateBySymbol,
          plannedCycles, replannedCycles, planTrace, openedCount, openCall, closedLog, envSimConfig,
          feeRateBySymbolPct, alive, wsLastError, lastOp, lastEvent, repeated,
          ws, wsConnected, wsLastMessageAt, reconnectTimer, reconnectAttempt,
          pingTimer, wsClock, wsTrace,
          incomeStats, seenIncomeKeys, incomeCursorTs, incomeInFlight, replayedRows, incomeTrace,
          symbolTickCounter, futuresBotState, futuresCooldownUntilTick, lastFuturesClose,
          symbolMeta, qtyRaw, qtyOut, orderQty, traderLeverage, maxLeverageBySymbol,
          effectiveLeverageBySymbol, leverageCalls,
          gtxFallbackMarket, gtxCall, gtxVenue,
          ready, isDualSidePosition, lastSync, inFlight, activePositions,
          positionSnapshot, lastActionBySymbol,
          lastError, orderCalls, positionRiskInFlight, venuePosition, liveEvent,
               liveRequests>>

Null == -1
NaN == -2
NullRec == [isNull |-> TRUE]

Max(a, b) == IF a >= b THEN a ELSE b
Min(a, b) == IF a <= b THEN a ELSE b
Abs(a) == IF a < 0 THEN -a ELSE a

\* Number.isFinite on a value that is a number, null or NaN
IsFinite(v) == v # Null /\ v # NaN

(***************************************************************************)
(* Configuration (config.js)                                               *)
(***************************************************************************)
SYMBOLS == {"1000PEPE"}
\* Market symbols are written in one case: the stream side lower-cases them and the
\* live trader upper-cases them, and each side compares only its own form.
MarketSymbolOf(symbol) == "1000PEPEUSDT"

FIVE_MINUTES_MS == 300000
DECISION_WINDOW_MS == FIVE_MINUTES_MS
HISTORY_CANDLES == 2
FLOW_LOOKBACK_MS == 60000
FLOW_MIN_SAMPLES == 2
FLOW_CONFIRM_THRESHOLD == 8          \* 0.08, in 1/100

(***************************************************************************)
(* Feed decoder and symbol state store (binance.js)                        *)
(***************************************************************************)
\* JavaScript comparisons: every comparison with NaN is false
JsGt(a, b) == a # NaN /\ b # NaN /\ a > b
JsLt(a, b) == a # NaN /\ b # NaN /\ a < b
JsStrictEq(a, b) == a # NaN /\ b # NaN /\ a = b

Last(seq) == seq[Len(seq)]
\* Array.prototype.slice(-n)
SliceLast(seq, n) == IF Len(seq) <= n THEN seq ELSE SubSeq(seq, Len(seq) - n + 1, Len(seq))

InitialSymbolState ==
  [candles |-> << >>, markPrice |-> Null, markTs |-> Null,
   tradePrice |-> Null, tradeQty |-> Null, tradeTs |-> Null,
   aggTrades |-> << >>, lastVolume5m |-> Null, nextCandleCloseTs |-> Null]

\* symbolByMarket.get(marketSymbol); NullRec stands for undefined
symbolByMarket(marketSymbol) ==
  IF \E sym \in SYMBOLS : MarketSymbolOf(sym) = marketSymbol
    THEN [isNull |-> FALSE, symbol |-> CHOOSE sym \in SYMBOLS : MarketSymbolOf(sym) = marketSymbol]
    ELSE NullRec

\* The payload carries numbers where the wire carries decimal strings; NaN is
\* what Number() yields for a missing or unparsable field.
normalizeStreamEvent(payload) ==
  IF payload.e = "trade"
    THEN [type |-> "trade", marketSymbol |-> payload.s,
          price |-> payload.p, qty |-> payload.q, ts |-> payload.T]
  ELSE IF payload.e = "markPriceUpdate"
    THEN [type |-> "mark", marketSymbol |-> payload.s, price |-> payload.p, ts |-> payload.E]
  ELSE IF payload.e = "kline"
    THEN [type |-> "kline", marketSymbol |-> payload.s, isClosed |-> payload.k.x,
          open |-> payload.k.o, high |-> payload.k.h, low |-> payload.k.l,
          close |-> payload.k.c, volume |-> payload.k.v,
          closeTime |-> payload.k.T, openTime |-> payload.k.t]
  ELSE NullRec

\* upsertClosedCandle that pushes every closed candle, whatever its closeTime
upsertClosedCandleAppendAlways(candles, candle) ==
  SliceLast(Append(candles, candle), HISTORY_CANDLES)

\* upsertClosedCandle that pushes on >= instead of >, so an equal closeTime is appended
upsertClosedCandleGe(candles, candle) ==
  LET n == Len(candles)
      pushed ==
        IF n = 0 \/ JsGt(candle.closeTime, candles[n].closeTime)
                 \/ JsStrictEq(candle.closeTime, candles[n].closeTime)
          THEN Append(candles, candle)
        ELSE candles
  IN SliceLast(pushed, HISTORY_CANDLES)

upsertClosedCandle(candles, candle) ==
  LET n == Len(candles)
      pushed ==
        IF n = 0 \/ JsGt(candle.closeTime, candles[n].closeTime)
          THEN Append(candles, candle)
        ELSE IF JsStrictEq(candle.closeTime, candles[n].closeTime)
          THEN [candles EXCEPT ![n] = candle]
        ELSE candles
  IN SliceLast(pushed, HISTORY_CANDLES)

RECURSIVE pruneAggTrades(_, _)
pruneAggTrades(aggTrades, nowTs) ==
  IF Len(aggTrades) > 0 /\ aggTrades[1].ts < nowTs - FLOW_LOOKBACK_MS
    THEN pruneAggTrades(Tail(aggTrades), nowTs)
    ELSE aggTrades

\* event.isBuyerMaker is read from the normalized event, which has no such field
EventIsBuyerMaker(event) == FALSE

\* applyStreamEvent on the state of the event's symbol
applyStreamEventTo(state, event) ==
  IF event.type = "trade" THEN
    LET s1 == [state EXCEPT
                 !.tradePrice = IF IsFinite(event.price) THEN event.price ELSE @,
                 !.tradeQty = IF IsFinite(event.qty) THEN event.qty ELSE @,
                 !.tradeTs = IF IsFinite(event.ts) THEN event.ts ELSE @]
    IN IF IsFinite(event.qty) /\ event.qty > 0 /\ IsFinite(event.ts)
         THEN [s1 EXCEPT !.aggTrades =
                 pruneAggTrades(
                   Append(@, [ts |-> event.ts, qty |-> event.qty,
                              side |-> IF EventIsBuyerMaker(event) THEN "sell" ELSE "buy"]),
                   event.ts)]
         ELSE s1
  ELSE IF event.type = "mark" THEN
    [state EXCEPT
       !.markPrice = IF IsFinite(event.price) THEN event.price ELSE @,
       !.markTs = IF IsFinite(event.ts) THEN event.ts ELSE @]
  ELSE IF event.type = "kline" THEN
    LET s1 == [state EXCEPT
                 !.lastVolume5m = IF IsFinite(event.volume) THEN event.volume ELSE @,
                 !.nextCandleCloseTs =
                    IF IsFinite(event.closeTime)
                      THEN (IF event.isClosed THEN event.closeTime + FIVE_MINUTES_MS
                                              ELSE event.closeTime)
                      ELSE @]
        closed == [openTime |-> event.openTime, open |-> event.open, high |-> event.high,
                   low |-> event.low, close |-> event.close, volume |-> event.volume,
                   closeTime |-> event.closeTime]
    IN IF event.isClosed
         THEN [s1 EXCEPT !.candles = upsertClosedCandle(@, closed)]
         ELSE s1
  ELSE state

\* The websocket 'message' handler: decode, normalize, look the symbol up, apply
applyStreamEvent(payload) ==
  LET event == normalizeStreamEvent(payload)
      sym == IF event = NullRec THEN NullRec ELSE symbolByMarket(event.marketSymbol)
  IN /\ booted
     /\ symbolState' =
          IF event = NullRec \/ sym = NullRec
            THEN symbolState
            ELSE [symbolState EXCEPT ![sym.symbol] = applyStreamEventTo(@, event)]

\* fetchKlineHistory keeps the rows whose closeTime and close are finite
fetchKlineHistoryFilter(rows) ==
  SelectSeq(rows, LAMBDA c : IsFinite(c.closeTime) /\ IsFinite(c.close))

\* hydrateHistoryForSymbol with the rows the REST call returned; failed = the call threw
hydrateHistoryForSymbol(state, rows, failed) ==
  IF failed THEN state
  ELSE
    LET candles == SliceLast(fetchKlineHistoryFilter(rows), HISTORY_CANDLES)
        n == Len(candles)
    IN [state EXCEPT
          !.candles = candles,
          !.lastVolume5m = IF n > 0 THEN candles[n].volume ELSE Null,
          !.nextCandleCloseTs =
             IF n > 0 /\ IsFinite(candles[n].closeTime)
               THEN candles[n].closeTime + FIVE_MINUTES_MS ELSE Null]

getLivePrice(state) ==
  IF state.tradePrice # Null /\ state.tradePrice # NaN THEN state.tradePrice
  ELSE IF state.markPrice # Null /\ state.markPrice # NaN THEN state.markPrice
  ELSE IF Len(state.candles) > 0 /\ Last(state.candles).close # NaN
    THEN Last(state.candles).close
  ELSE Null

Infinity == 2000000000

getMsToNextCandle(state, clock) ==
  IF IsFinite(state.nextCandleCloseTs) THEN Max(0, state.nextCandleCloseTs - clock)
  ELSE IF Len(state.candles) > 0 /\ IsFinite(Last(state.candles).closeTime)
    THEN Max(0, Last(state.candles).closeTime + FIVE_MINUTES_MS - clock)
  ELSE Infinity

getCurrentCycleId(state) ==
  IF IsFinite(state.nextCandleCloseTs) THEN state.nextCandleCloseTs
  ELSE IF Len(state.candles) > 0 /\ IsFinite(Last(state.candles).closeTime)
    THEN Last(state.candles).closeTime + FIVE_MINUTES_MS
  ELSE Null

isFinitePrice(value) == value # Null /\ value # NaN /\ value > 0

\* getTradeFlowMetrics on a window already pruned; imbalance in 1/100
getTradeFlowMetrics(aggTrades) ==
  LET RECURSIVE SumSide(_, _)
      SumSide(seq, side) ==
        IF seq = << >> THEN 0
        ELSE (IF Head(seq).side = side THEN Head(seq).qty ELSE 0) + SumSide(Tail(seq), side)
      buyQty == SumSide(aggTrades, "buy")
      sellQty == SumSide(aggTrades, "sell")
      total == buyQty + sellQty
  IN [samples |-> Len(aggTrades), buyQty |-> buyQty, sellQty |-> sellQty,
      imbalance |-> IF total > 0 THEN ((buyQty - sellQty) * 100) \div total ELSE 0]

(***************************************************************************)
(* Strategy analyzer (strategy.js with flow context)                       *)
(***************************************************************************)
TRIGGER_FLOOR == 8       \* 0.08 %
TRIGGER_CEILING == 220   \* 2.2 %

clamp(value, min, max) == Max(min, Min(max, value))

WaitAnalysis ==
  [status |-> "WAIT", longAbove |-> Null, shortBelow |-> Null, triggerPct |-> 0,
   flowImbalance |-> Null, flowSamples |-> Null]

\* analyzeDecision without the test of the decision window
analyzeDecisionAnyTime(candles, lastPrice, msToNextCandle, flowContext, stats) ==
  IF lastPrice = Null \/ lastPrice = NaN THEN WaitAnalysis
  ELSE IF Len(candles) < HISTORY_CANDLES THEN WaitAnalysis
  ELSE
    LET trendPct == stats.trendPct
        hasFlow == flowContext.samples >= FLOW_MIN_SAMPLES
        flowImbalance == IF hasFlow THEN flowContext.imbalance ELSE 0
        flowSamples == IF hasFlow THEN flowContext.samples ELSE 0
        flowConflict == hasFlow /\ (\/ (trendPct > 0 /\ flowImbalance < -FLOW_CONFIRM_THRESHOLD)
                                    \/ (trendPct < 0 /\ flowImbalance > FLOW_CONFIRM_THRESHOLD))
        flowSupport == hasFlow /\ (\/ (trendPct > 0 /\ flowImbalance > FLOW_CONFIRM_THRESHOLD)
                                   \/ (trendPct < 0 /\ flowImbalance < -FLOW_CONFIRM_THRESHOLD))
        \* a range |high - low| / close is NaN when high or low is NaN and close is
        \* a number other than 0, and the average of the ranges is NaN with it
        atrPct == IF \E i \in DOMAIN candles :
                        /\ candles[i].close \notin {0, NaN}
                        /\ (candles[i].high = NaN \/ candles[i].low = NaN)
                    THEN NaN ELSE stats.atrPct
        triggerBasePct == IF atrPct = NaN THEN NaN ELSE (atrPct * 6 + stats.volPct * 8) \div 10
        triggerMultiplier == IF flowConflict THEN 125 ELSE IF flowSupport THEN 85 ELSE 100
        \* Math.max and Math.min of NaN are NaN
        triggerPct == IF triggerBasePct = NaN THEN NaN
                      ELSE clamp((triggerBasePct * triggerMultiplier) \div 100,
                                 TRIGGER_FLOOR, TRIGGER_CEILING)
        longAbove == IF triggerPct = NaN THEN NaN
                     ELSE (lastPrice * (10000 + triggerPct)) \div 10000
        shortBelow == IF triggerPct = NaN THEN NaN
                      ELSE (lastPrice * (10000 - triggerPct)) \div 10000
        weakTrend == Abs(trendPct) < 8
        weakVolume == stats.volumeRatio < 75
        status == IF weakTrend /\ weakVolume THEN "SIDEWAYS"
                  ELSE IF flowConflict THEN "SIDEWAYS" ELSE "SETUP"
    IN [status |-> status, longAbove |-> longAbove, shortBelow |-> shortBelow,
        triggerPct |-> triggerPct, flowImbalance |-> flowImbalance,
        flowSamples |-> flowSamples]

\* analyzeDecision.  The statistics over the candle history (ATR, volatility,
\* EMA trend, volume ratio) are floating-point aggregates; they enter as the
\* record stats, in 1/100 of their unit, and everything after them is computed
\* as the code computes it.
analyzeDecision(candles, lastPrice, msToNextCandle, flowContext, stats) ==
  IF lastPrice = Null \/ lastPrice = NaN THEN WaitAnalysis
  ELSE IF Len(candles) < HISTORY_CANDLES THEN WaitAnalysis
  ELSE IF msToNextCandle = Infinity \/ msToNextCandle > DECISION_WINDOW_MS THEN WaitAnalysis
  ELSE
    LET trendPct == stats.trendPct
        hasFlow == flowContext.samples >= FLOW_MIN_SAMPLES
        flowImbalance == IF hasFlow THEN flowContext.imbalance ELSE 0
        flowSamples == IF hasFlow THEN flowContext.samples ELSE 0
        flowConflict == hasFlow /\ (\/ (trendPct > 0 /\ flowImbalance < -FLOW_CONFIRM_THRESHOLD)
                                    \/ (trendPct < 0 /\ flowImbalance > FLOW_CONFIRM_THRESHOLD))
        flowSupport == hasFlow /\ (\/ (trendPct > 0 /\ flowImbalance > FLOW_CONFIRM_THRESHOLD)
                                   \/ (trendPct < 0 /\ flowImbalance < -FLOW_CONFIRM_THRESHOLD))
        \* a range |high - low| / close is NaN when high or low is NaN and close is
        \* a number other than 0, and the average of the ranges is NaN with it
        atrPct == IF \E i \in DOMAIN candles :
                        /\ candles[i].close \notin {0, NaN}
                        /\ (candles[i].high = NaN \/ candles[i].low = NaN)
                    THEN NaN ELSE stats.atrPct
        triggerBasePct == IF atrPct = NaN THEN NaN ELSE (atrPct * 6 + stats.volPct * 8) \div 10
        triggerMultiplier == IF flowConflict THEN 125 ELSE IF flowSupport THEN 85 ELSE 100
        \* Math.max and Math.min of NaN are NaN
        triggerPct == IF triggerBasePct = NaN THEN NaN
                      ELSE clamp((triggerBasePct * triggerMultiplier) \div 100,
                                 TRIGGER_FLOOR, TRIGGER_CEILING)
        longAbove == IF triggerPct = NaN THEN NaN
                     ELSE (lastPrice * (10000 + triggerPct)) \div 10000
        shortBelow == IF triggerPct = NaN THEN NaN
                      ELSE (lastPrice * (10000 - triggerPct)) \div 10000
        weakTrend == Abs(trendPct) < 8
        weakVolume == stats.volumeRatio < 75
        status == IF weakTrend /\ weakVolume THEN "SIDEWAYS"
                  ELSE IF flowConflict THEN "SIDEWAYS" ELSE "SETUP"
    IN [status |-> status, longAbove |-> longAbove, shortBelow |-> shortBelow,
        triggerPct |-> triggerPct, flowImbalance |-> flowImbalance,
        flowSamples |-> flowSamples]

(***************************************************************************)
(* Decision planner (binance.js syncDecisionPlan)                          *)
(***************************************************************************)
canBuild(analysis, livePrice) ==
  /\ analysis.status \in {"SETUP", "SIDEWAYS"}
  /\ isFinitePrice(livePrice)
  /\ isFinitePrice(analysis.longAbove)
  /\ isFinitePrice(analysis.shortBelow)

\* the plan object built at binance.js 452-464
NewPlan(cycleId, analysis, livePrice, clock) ==
  [cycleId |-> cycleId, status |-> analysis.status, triggerPct |-> analysis.triggerPct,
   flowImbalance |-> analysis.flowImbalance, flowSamples |-> analysis.flowSamples,
   basePrice |-> livePrice, longAbove |-> analysis.longAbove,
   shortBelow |-> analysis.shortBelow, createdAt |-> clock, hasTriggered |-> FALSE]

\* TRUE when syncDecisionPlan takes the branch that replaces the plan object
StartsNewPlan(prevPlan, cycleId) ==
  IsFinite(cycleId) /\ (prevPlan = NullRec \/ prevPlan.cycleId # cycleId)

\* syncDecisionPlan whose promotion branch does not test prevPlan.status, so every
\* SETUP analysis refreshes the thresholds
syncDecisionPlanRefreshing(prevPlan, state, analysis, livePrice, clock) ==
  LET cycleId == getCurrentCycleId(state)
  IN IF ~IsFinite(cycleId) THEN NullRec
     ELSE IF StartsNewPlan(prevPlan, cycleId)
       THEN (IF canBuild(analysis, livePrice)
               THEN NewPlan(cycleId, analysis, livePrice, clock) ELSE NullRec)
     ELSE IF analysis.status = "SETUP" /\ canBuild(analysis, livePrice)
       THEN [prevPlan EXCEPT
               !.status = analysis.status, !.triggerPct = analysis.triggerPct,
               !.flowImbalance = analysis.flowImbalance, !.flowSamples = analysis.flowSamples,
               !.basePrice = livePrice, !.longAbove = analysis.longAbove,
               !.shortBelow = analysis.shortBelow]
     ELSE prevPlan

\* syncDecisionPlan that rebuilds the plan on every call, without the cycle test
syncDecisionPlanRebuilding(prevPlan, state, analysis, livePrice, clock) ==
  LET cycleId == getCurrentCycleId(state)
  IN IF ~IsFinite(cycleId) THEN NullRec
     ELSE IF canBuild(analysis, livePrice)
       THEN NewPlan(cycleId, analysis, livePrice, clock)
     ELSE NullRec

syncDecisionPlan(prevPlan, state, analysis, livePrice, clock) ==
  LET cycleId == getCurrentCycleId(state)
  IN IF ~IsFinite(cycleId) THEN NullRec
     ELSE IF StartsNewPlan(prevPlan, cycleId)
       THEN (IF canBuild(analysis, livePrice)
               THEN NewPlan(cycleId, analysis, livePrice, clock) ELSE NullRec)
     ELSE IF prevPlan.status # "SETUP" /\ analysis.status = "SETUP" /\ canBuild(analysis, livePrice)
       THEN [prevPlan EXCEPT
               !.status = analysis.status, !.triggerPct = analysis.triggerPct,
               !.flowImbalance = analysis.flowImbalance, !.flowSamples = analysis.flowSamples,
               !.basePrice = livePrice, !.longAbove = analysis.longAbove,
               !.shortBelow = analysis.shortBelow]
     ELSE prevPlan

(***************************************************************************)
(* Simulator (simulator.js)                                                *)
(***************************************************************************)
\* SIM_CONFIG, from the defaults of config.js
SIM_MARGIN_USD == 1000000                  \* 1 USD
SIM_LEVERAGE == 10
SIM_SL_ROI_MIN_PCT == 80000                \* 8 %
SIM_SL_ROI_MAX_PCT == 150000               \* 15 %
SIM_TRAIL_ACTIVATE_ROI_MIN_PCT == 60000    \* 6 %
SIM_TRAIL_ACTIVATE_ROI_MAX_PCT == 120000   \* 12 %
SIM_TRAIL_DD_ROI_MIN_PCT == 15000          \* 1.5 %
SIM_TRAIL_DD_ROI_MAX_PCT == 30000          \* 3 %
SIM_MIN_NET_PROFIT_USD == 30000            \* 0.03 USD
SIM_FEE_RATE_PCT == 5                      \* 0.05 %, in 1/100 of a percent
HISTORY_LIMIT == 30

SIM_CONFIG ==
  [marginUsd |-> SIM_MARGIN_USD, leverage |-> SIM_LEVERAGE,
   stopLossRoiMinPct |-> SIM_SL_ROI_MIN_PCT, stopLossRoiMaxPct |-> SIM_SL_ROI_MAX_PCT,
   trailActivateRoiMinPct |-> SIM_TRAIL_ACTIVATE_ROI_MIN_PCT,
   trailActivateRoiMaxPct |-> SIM_TRAIL_ACTIVATE_ROI_MAX_PCT,
   trailDdRoiMinPct |-> SIM_TRAIL_DD_ROI_MIN_PCT, trailDdRoiMaxPct |-> SIM_TRAIL_DD_ROI_MAX_PCT,
   minNetProfitUsd |-> SIM_MIN_NET_PROFIT_USD, feeRatePct |-> SIM_FEE_RATE_PCT]

isValidPrice(value) == value # Null /\ value # NaN /\ value > 0

createDefaults(simConfig) ==
  LET slMin == Max(10000, simConfig.stopLossRoiMinPct)
      trailActivateMin == Max(1000, simConfig.trailActivateRoiMinPct)
      trailDdMin == Max(1000, simConfig.trailDdRoiMinPct)
  IN [marginUsd |-> Max(100000, simConfig.marginUsd),
      leverage |-> Max(1, simConfig.leverage),
      stopLossRoiMinPct |-> slMin,
      stopLossRoiMaxPct |-> Max(slMin, simConfig.stopLossRoiMaxPct),
      trailActivateRoiMinPct |-> trailActivateMin,
      trailActivateRoiMaxPct |-> Max(trailActivateMin, simConfig.trailActivateRoiMaxPct),
      trailDdRoiMinPct |-> trailDdMin,
      trailDdRoiMaxPct |-> Max(trailDdMin, simConfig.trailDdRoiMaxPct),
      minNetProfitUsd |-> Max(0, simConfig.minNetProfitUsd),
      feeRatePct |-> Max(0, simConfig.feeRatePct)]

createSymbolSimState ==
  [activeTrade |-> NullRec, history |-> << >>,
   stats |-> [total |-> 0, wins |-> 0, losses |-> 0, realizedPnlUsd |-> 0],
   lastClosed |-> NullRec]

\* (pnlUsd / marginUsd) * 100, in 1/10000 of a percent
calculateRoiPct(pnlUsd, marginUsd) ==
  IF marginUsd = 0 THEN 0 ELSE (pnlUsd * 100) \div (marginUsd \div 10000)

interpolateByTrigger(min, max, triggerPct) ==
  LET floor == 8
      ceiling == 180
      safeTrigger == IF IsFinite(triggerPct) THEN triggerPct ELSE floor
  IN min + ((max - min) * clamp(safeTrigger - floor, 0, ceiling - floor)) \div (ceiling - floor)

createTrade(side, entryPrice, clock, config, meta) ==
  IF ~isValidPrice(entryPrice) THEN NullRec
  ELSE
    LET positionValueUsd == config.marginUsd * config.leverage
        quantity == (positionValueUsd * 100) \div entryPrice
        entryFeeUsd == (positionValueUsd * config.feeRatePct) \div 10000
        estimatedExitFeeUsd == (positionValueUsd * config.feeRatePct) \div 10000
        netAtEntryUsd == -(entryFeeUsd + estimatedExitFeeUsd)
    IN IF quantity <= 0 THEN NullRec
       ELSE
        [side |-> side, entryPrice |-> entryPrice, entryTime |-> clock,
         marginUsd |-> config.marginUsd, leverage |-> config.leverage,
         positionValueUsd |-> positionValueUsd, quantity |-> quantity,
         stopLossRoiPct |-> interpolateByTrigger(config.stopLossRoiMinPct,
                              config.stopLossRoiMaxPct, meta.setupTriggerPct),
         trailActivateRoiPct |-> interpolateByTrigger(config.trailActivateRoiMinPct,
                              config.trailActivateRoiMaxPct, meta.setupTriggerPct),
         trailDdRoiPct |-> interpolateByTrigger(config.trailDdRoiMinPct,
                              config.trailDdRoiMaxPct, meta.setupTriggerPct),
         minNetProfitUsd |-> Max(config.minNetProfitUsd,
                                 ((entryFeeUsd + estimatedExitFeeUsd) * 125) \div 100),
         feeRatePct |-> config.feeRatePct,
         entryFeeUsd |-> entryFeeUsd, estimatedExitFeeUsd |-> estimatedExitFeeUsd,
         trailingArmed |-> FALSE, peakNetPnlUsd |-> netAtEntryUsd,
         peakRoiPct |-> calculateRoiPct(netAtEntryUsd, config.marginUsd),
         meta |-> meta]

calculateGrossPnl(trade, price) ==
  IF ~isValidPrice(price) THEN 0
  ELSE IF trade.side = "long" THEN ((price - trade.entryPrice) * trade.quantity) \div 100
  ELSE ((trade.entryPrice - price) * trade.quantity) \div 100

\* calculateNetPnl whose net result forgets the entry fee
calculateNetPnlExitFeeOnly(trade, price) ==
  LET grossPnlUsd == calculateGrossPnl(trade, price)
      exitNotionalUsd == Abs((trade.quantity * price) \div 100)
      exitFeeUsd == (exitNotionalUsd * trade.feeRatePct) \div 10000
      totalFeesUsd == trade.entryFeeUsd + exitFeeUsd
  IN [grossPnlUsd |-> grossPnlUsd, totalFeesUsd |-> totalFeesUsd,
      netPnlUsd |-> grossPnlUsd - exitFeeUsd]

calculateNetPnl(trade, price) ==
  LET grossPnlUsd == calculateGrossPnl(trade, price)
      exitNotionalUsd == Abs((trade.quantity * price) \div 100)
      exitFeeUsd == (exitNotionalUsd * trade.feeRatePct) \div 10000
      totalFeesUsd == trade.entryFeeUsd + exitFeeUsd
  IN [grossPnlUsd |-> grossPnlUsd, totalFeesUsd |-> totalFeesUsd,
      netPnlUsd |-> grossPnlUsd - totalFeesUsd]

\* { ...a, ...b }
Spread(a, b) == [k \in DOMAIN a \cup DOMAIN b |-> IF k \in DOMAIN b THEN b[k] ELSE a[k]]

\* closeTrade that drops the newest entry, not the oldest, from a full history
closeTradeKeepingOldest(simState, price, clock, reason) ==
  LET trade == simState.activeTrade
  IN IF trade = NullRec THEN [sim |-> simState, closed |-> NullRec]
     ELSE
       LET calc == calculateNetPnl(trade, price)
           roiPct == calculateRoiPct(calc.netPnlUsd, trade.marginUsd)
           isWin == calc.netPnlUsd > 0
           closed == Spread(trade,
                       [exitPrice |-> price, exitTime |-> clock, exitReason |-> reason,
                        grossPnlUsd |-> calc.grossPnlUsd, feesUsd |-> calc.totalFeesUsd,
                        pnlUsd |-> calc.netPnlUsd, roiPct |-> roiPct, isWin |-> isWin])
       IN [sim |-> [activeTrade |-> NullRec,
                    lastClosed |-> closed,
                    history |-> IF Len(simState.history) >= HISTORY_LIMIT
                                  THEN simState.history
                                  ELSE Append(simState.history, closed),
                    stats |-> [total |-> simState.stats.total + 1,
                               wins |-> simState.stats.wins + (IF isWin THEN 1 ELSE 0),
                               losses |-> simState.stats.losses + (IF isWin THEN 0 ELSE 1),
                               realizedPnlUsd |-> simState.stats.realizedPnlUsd + calc.netPnlUsd]],
           closed |-> closed]

\* closeTrade; the result is the new SimState and the ClosedTrade (NullRec for null)
closeTrade(simState, price, clock, reason) ==
  LET trade == simState.activeTrade
  IN IF trade = NullRec THEN [sim |-> simState, closed |-> NullRec]
     ELSE
       LET calc == calculateNetPnl(trade, price)
           roiPct == calculateRoiPct(calc.netPnlUsd, trade.marginUsd)
           isWin == calc.netPnlUsd > 0
           closed == Spread(trade,
                       [exitPrice |-> price, exitTime |-> clock, exitReason |-> reason,
                        grossPnlUsd |-> calc.grossPnlUsd, feesUsd |-> calc.totalFeesUsd,
                        pnlUsd |-> calc.netPnlUsd, roiPct |-> roiPct, isWin |-> isWin])
           pushed == Append(simState.history, closed)
       IN [sim |-> [activeTrade |-> NullRec,
                    lastClosed |-> closed,
                    history |-> IF Len(pushed) > HISTORY_LIMIT THEN Tail(pushed) ELSE pushed,
                    stats |-> [total |-> simState.stats.total + 1,
                               wins |-> simState.stats.wins + (IF isWin THEN 1 ELSE 0),
                               losses |-> simState.stats.losses + (IF isWin THEN 0 ELSE 1),
                               realizedPnlUsd |-> simState.stats.realizedPnlUsd + calc.netPnlUsd]],
           closed |-> closed]

\* maybeOpenTrade without the test of simState.activeTrade
maybeOpenTradeUnguarded(simState, decisionPlan, livePrice, clock, simConfig) ==
  LET none == [sim |-> simState, plan |-> decisionPlan, opened |-> NullRec]
  IN IF decisionPlan = NullRec THEN none
     ELSE IF decisionPlan.status # "SETUP" \/ decisionPlan.hasTriggered THEN none
     ELSE IF ~isValidPrice(livePrice) THEN none
     ELSE IF ~isValidPrice(decisionPlan.longAbove) \/ ~isValidPrice(decisionPlan.shortBelow) THEN none
     ELSE
       LET side == IF livePrice >= decisionPlan.longAbove THEN "long"
                   ELSE IF livePrice <= decisionPlan.shortBelow THEN "short" ELSE "none"
           vetoed == /\ IsFinite(decisionPlan.flowImbalance)
                     /\ IsFinite(decisionPlan.flowSamples)
                     /\ decisionPlan.flowSamples >= 20
                     /\ \/ (side = "long" /\ decisionPlan.flowImbalance < -5)
                        \/ (side = "short" /\ decisionPlan.flowImbalance > 5)
           nextTrade == createTrade(side, livePrice, clock, createDefaults(simConfig),
                          [cycleId |-> decisionPlan.cycleId,
                           triggerLongAbove |-> decisionPlan.longAbove,
                           triggerShortBelow |-> decisionPlan.shortBelow,
                           setupTriggerPct |-> decisionPlan.triggerPct])
       IN IF side = "none" \/ vetoed \/ nextTrade = NullRec THEN none
          ELSE [sim |-> [simState EXCEPT !.activeTrade = nextTrade],
                plan |-> [decisionPlan EXCEPT !.hasTriggered = TRUE],
                opened |-> nextTrade]

\* maybeOpenTrade whose flow gate needs more than 20 samples
maybeOpenTradeAbove20(simState, decisionPlan, livePrice, clock, simConfig) ==
  LET none == [sim |-> simState, plan |-> decisionPlan, opened |-> NullRec]
  IN IF simState.activeTrade # NullRec THEN none
     ELSE IF decisionPlan = NullRec THEN none
     ELSE IF decisionPlan.status # "SETUP" \/ decisionPlan.hasTriggered THEN none
     ELSE IF ~isValidPrice(livePrice) THEN none
     ELSE IF ~isValidPrice(decisionPlan.longAbove) \/ ~isValidPrice(decisionPlan.shortBelow) THEN none
     ELSE
       LET side == IF livePrice >= decisionPlan.longAbove THEN "long"
                   ELSE IF livePrice <= decisionPlan.shortBelow THEN "short" ELSE "none"
           vetoed == /\ IsFinite(decisionPlan.flowImbalance)
                     /\ IsFinite(decisionPlan.flowSamples)
                     /\ decisionPlan.flowSamples > 20
                     /\ \/ (side = "long" /\ decisionPlan.flowImbalance < -5)
                        \/ (side = "short" /\ decisionPlan.flowImbalance > 5)
           nextTrade == createTrade(side, livePrice, clock, createDefaults(simConfig),
                          [cycleId |-> decisionPlan.cycleId,
                           triggerLongAbove |-> decisionPlan.longAbove,
                           triggerShortBelow |-> decisionPlan.shortBelow,
                           setupTriggerPct |-> decisionPlan.triggerPct])
       IN IF side = "none" \/ vetoed \/ nextTrade = NullRec THEN none
          ELSE [sim |-> [simState EXCEPT !.activeTrade = nextTrade],
                plan |-> [decisionPlan EXCEPT !.hasTriggered = TRUE],
                opened |-> nextTrade]

\* maybeOpenTrade that does not look at hasTriggered
maybeOpenTradeRetriggering(simState, decisionPlan, livePrice, clock, simConfig) ==
  LET none == [sim |-> simState, plan |-> decisionPlan, opened |-> NullRec]
  IN IF simState.activeTrade # NullRec THEN none
     ELSE IF decisionPlan = NullRec THEN none
     ELSE IF decisionPlan.status # "SETUP" THEN none
     ELSE IF ~isValidPrice(livePrice) THEN none
     ELSE IF ~isValidPrice(decisionPlan.longAbove) \/ ~isValidPrice(decisionPlan.shortBelow) THEN none
     ELSE
       LET side == IF livePrice >= decisionPlan.longAbove THEN "long"
                   ELSE IF livePrice <= decisionPlan.shortBelow THEN "short" ELSE "none"
           vetoed == /\ IsFinite(decisionPlan.flowImbalance)
                     /\ IsFinite(decisionPlan.flowSamples)
                     /\ decisionPlan.flowSamples >= 20
                     /\ \/ (side = "long" /\ decisionPlan.flowImbalance < -5)
                        \/ (side = "short" /\ decisionPlan.flowImbalance > 5)
           nextTrade == createTrade(side, livePrice, clock, createDefaults(simConfig),
                          [cycleId |-> decisionPlan.cycleId,
                           triggerLongAbove |-> decisionPlan.longAbove,
                           triggerShortBelow |-> decisionPlan.shortBelow,
                           setupTriggerPct |-> decisionPlan.triggerPct])
       IN IF side = "none" \/ vetoed \/ nextTrade = NullRec THEN none
          ELSE [sim |-> [simState EXCEPT !.activeTrade = nextTrade],
                plan |-> [decisionPlan EXCEPT !.hasTriggered = TRUE],
                opened |-> nextTrade]

\* maybeOpenTrade; the result is the new SimState, the plan (hasTriggered may be
\* set) and the opened trade (NullRec for null)
maybeOpenTrade(simState, decisionPlan, livePrice, clock, simConfig) ==
  LET none == [sim |-> simState, plan |-> decisionPlan, opened |-> NullRec]
  IN IF simState.activeTrade # NullRec THEN none
     ELSE IF decisionPlan = NullRec THEN none
     ELSE IF decisionPlan.status # "SETUP" \/ decisionPlan.hasTriggered THEN none
     ELSE IF ~isValidPrice(livePrice) THEN none
     ELSE IF ~isValidPrice(decisionPlan.longAbove) \/ ~isValidPrice(decisionPlan.shortBelow) THEN none
     ELSE
       LET side == IF livePrice >= decisionPlan.longAbove THEN "long"
                   ELSE IF livePrice <= decisionPlan.shortBelow THEN "short" ELSE "none"
           vetoed == /\ IsFinite(decisionPlan.flowImbalance)
                     /\ IsFinite(decisionPlan.flowSamples)
                     /\ decisionPlan.flowSamples >= 20
                     /\ \/ (side = "long" /\ decisionPlan.flowImbalance < -5)
                        \/ (side = "short" /\ decisionPlan.flowImbalance > 5)
           nextTrade == createTrade(side, livePrice, clock, createDefaults(simConfig),
                          [cycleId |-> decisionPlan.cycleId,
                           triggerLongAbove |-> decisionPlan.longAbove,
                           triggerShortBelow |-> decisionPlan.shortBelow,
                           setupTriggerPct |-> decisionPlan.triggerPct])
       IN IF side = "none" \/ vetoed \/ nextTrade = NullRec THEN none
          ELSE [sim |-> [simState EXCEPT !.activeTrade = nextTrade],
                plan |-> [decisionPlan EXCEPT !.hasTriggered = TRUE],
                opened |-> nextTrade]

\* updateOpenTrade that derives trailingArmed from the current ROI on every call
updateOpenTradeRecomputing(simState, livePrice, clock) ==
  LET trade == simState.activeTrade
  IN IF trade = NullRec \/ ~isValidPrice(livePrice) THEN [sim |-> simState, closed |-> NullRec]
     ELSE
       LET calc == calculateNetPnl(trade, livePrice)
           roiPct == calculateRoiPct(calc.netPnlUsd, trade.marginUsd)
           newPeak == calc.netPnlUsd > trade.peakNetPnlUsd
           t1 == [trade EXCEPT
                    !.peakNetPnlUsd = IF newPeak THEN calc.netPnlUsd ELSE @,
                    !.peakRoiPct = IF newPeak THEN roiPct ELSE @]
           t2 == [t1 EXCEPT
                    !.trailingArmed = roiPct >= trade.trailActivateRoiPct]
           s2 == [simState EXCEPT !.activeTrade = t2]
           drawdownRoiPct == t2.peakRoiPct - roiPct
       IN IF roiPct <= -trade.stopLossRoiPct
            THEN closeTrade(simState, livePrice, clock, "SL_ROI")
          ELSE IF t2.trailingArmed /\ drawdownRoiPct >= t2.trailDdRoiPct
                  /\ calc.netPnlUsd >= t2.minNetProfitUsd
            THEN closeTrade(s2, livePrice, clock, "TRAIL_ROI")
          ELSE IF t2.trailingArmed /\ t2.peakNetPnlUsd >= t2.minNetProfitUsd
                  /\ calc.netPnlUsd <= t2.minNetProfitUsd
            THEN closeTrade(s2, livePrice, clock, "LOCK_PROFIT")
          ELSE [sim |-> s2, closed |-> NullRec]

\* updateOpenTrade that tests the stop-loss after the trailing rules
updateOpenTradeStopLast(simState, livePrice, clock) ==
  LET trade == simState.activeTrade
  IN IF trade = NullRec \/ ~isValidPrice(livePrice) THEN [sim |-> simState, closed |-> NullRec]
     ELSE
       LET calc == calculateNetPnl(trade, livePrice)
           roiPct == calculateRoiPct(calc.netPnlUsd, trade.marginUsd)
           newPeak == calc.netPnlUsd > trade.peakNetPnlUsd
           t1 == [trade EXCEPT
                    !.peakNetPnlUsd = IF newPeak THEN calc.netPnlUsd ELSE @,
                    !.peakRoiPct = IF newPeak THEN roiPct ELSE @]
           t2 == [t1 EXCEPT
                    !.trailingArmed = IF ~@ /\ roiPct >= trade.trailActivateRoiPct THEN TRUE ELSE @]
           s2 == [simState EXCEPT !.activeTrade = t2]
           drawdownRoiPct == t2.peakRoiPct - roiPct
       IN IF t2.trailingArmed /\ drawdownRoiPct >= t2.trailDdRoiPct
                  /\ calc.netPnlUsd >= t2.minNetProfitUsd
            THEN closeTrade(s2, livePrice, clock, "TRAIL_ROI")
          ELSE IF t2.trailingArmed /\ t2.peakNetPnlUsd >= t2.minNetProfitUsd
                  /\ calc.netPnlUsd <= t2.minNetProfitUsd
            THEN closeTrade(s2, livePrice, clock, "LOCK_PROFIT")
          ELSE IF roiPct <= -trade.stopLossRoiPct
            THEN closeTrade(s2, livePrice, clock, "SL_ROI")
          ELSE [sim |-> s2, closed |-> NullRec]

\* updateOpenTrade that tests the profit lock before the trailing drawdown
updateOpenTradeLockFirst(simState, livePrice, clock) ==
  LET trade == simState.activeTrade
  IN IF trade = NullRec \/ ~isValidPrice(livePrice) THEN [sim |-> simState, closed |-> NullRec]
     ELSE
       LET calc == calculateNetPnl(trade, livePrice)
           roiPct == calculateRoiPct(calc.netPnlUsd, trade.marginUsd)
           newPeak == calc.netPnlUsd > trade.peakNetPnlUsd
           t1 == [trade EXCEPT
                    !.peakNetPnlUsd = IF newPeak THEN calc.netPnlUsd ELSE @,
                    !.peakRoiPct = IF newPeak THEN roiPct ELSE @]
           t2 == [t1 EXCEPT
                    !.trailingArmed = IF ~@ /\ roiPct >= trade.trailActivateRoiPct THEN TRUE ELSE @]
           s2 == [simState EXCEPT !.activeTrade = t2]
           drawdownRoiPct == t2.peakRoiPct - roiPct
       IN IF roiPct <= -trade.stopLossRoiPct
            THEN closeTrade(simState, livePrice, clock, "SL_ROI")
          ELSE IF t2.trailingArmed /\ t2.peakNetPnlUsd >= t2.minNetProfitUsd
                  /\ calc.netPnlUsd <= t2.minNetProfitUsd
            THEN closeTrade(s2, livePrice, clock, "LOCK_PROFIT")
          ELSE IF t2.trailingArmed /\ drawdownRoiPct >= t2.trailDdRoiPct
                  /\ calc.netPnlUsd >= t2.minNetProfitUsd
            THEN closeTrade(s2, livePrice, clock, "TRAIL_ROI")
          ELSE [sim |-> s2, closed |-> NullRec]

\* updateOpenTrade; the result is the new SimState and the ClosedTrade (NullRec)
updateOpenTrade(simState, livePrice, clock) ==
  LET trade == simState.activeTrade
  IN IF trade = NullRec \/ ~isValidPrice(livePrice) THEN [sim |-> simState, closed |-> NullRec]
     ELSE
       LET calc == calculateNetPnl(trade, livePrice)
           roiPct == calculateRoiPct(calc.netPnlUsd, trade.marginUsd)
           newPeak == calc.netPnlUsd > trade.peakNetPnlUsd
           t1 == [trade EXCEPT
                    !.peakNetPnlUsd = IF newPeak THEN calc.netPnlUsd ELSE @,
                    !.peakRoiPct = IF newPeak THEN roiPct ELSE @]
           t2 == [t1 EXCEPT
                    !.trailingArmed = IF ~@ /\ roiPct >= trade.trailActivateRoiPct THEN TRUE ELSE @]
           s2 == [simState EXCEPT !.activeTrade = t2]
           drawdownRoiPct == t2.peakRoiPct - roiPct
       IN IF roiPct <= -trade.stopLossRoiPct
            THEN closeTrade(simState, livePrice, clock, "SL_ROI")
          ELSE IF t2.trailingArmed /\ drawdownRoiPct >= t2.trailDdRoiPct
                  /\ calc.netPnlUsd >= t2.minNetProfitUsd
            THEN closeTrade(s2, livePrice, clock, "TRAIL_ROI")
          ELSE IF t2.trailingArmed /\ t2.peakNetPnlUsd >= t2.minNetProfitUsd
                  /\ calc.netPnlUsd <= t2.minNetProfitUsd
            THEN closeTrade(s2, livePrice, clock, "LOCK_PROFIT")
          ELSE [sim |-> s2, closed |-> NullRec]

(***************************************************************************)
(* Tick loop (binance.js buildRows) for one symbol                          *)
(***************************************************************************)
\* the element of a one-element set
The(S) == CHOOSE r \in S : TRUE

\* One iteration of the loop of buildRows, at clock = Date.now() of tick().  Each
\* const of the loop body is bound once, innermost binding last: livePrice and the
\* pruned state, then the analysis and the updated simulator, then the plan, then
\* the opening.
buildRow(state, prevPlan, sim, clock, stats, symbolSimConfig) ==
  The({The({The({The({
    [state |-> pruned, analysis |-> analysis, plan |-> opened.plan, sim |-> opened.sim,
     closedTrade |-> updated.closed, openedTrade |-> opened.opened,
     createdPlan |-> created,
     \* what the call did to the plan, for the history variable planTrace
     trace |-> IF decisionPlan = NullRec THEN "none"
               ELSE IF created THEN "created"
               ELSE IF prevPlan.status # decisionPlan.status THEN "promoted"
               ELSE IF analysis.status # decisionPlan.status
                       \/ analysis.longAbove # decisionPlan.longAbove
                       \/ analysis.shortBelow # decisionPlan.shortBelow
                 THEN "held"
               ELSE "same"] :
      opened \in {IF isFinitePrice(livePrice)
                    THEN maybeOpenTrade(updated.sim, decisionPlan, livePrice, clock, symbolSimConfig)
                    ELSE [sim |-> updated.sim, plan |-> decisionPlan, opened |-> NullRec]},
      created \in {StartsNewPlan(prevPlan, getCurrentCycleId(pruned))
                     /\ decisionPlan # NullRec}}) :
      decisionPlan \in {syncDecisionPlan(prevPlan, pruned, analysis, livePrice, clock)}}) :
      analysis \in {LET flowMetrics == getTradeFlowMetrics(pruned.aggTrades)
                    IN analyzeDecision(pruned.candles, livePrice,
                         getMsToNextCandle(state, clock),
                         [imbalance |-> flowMetrics.imbalance,
                          samples |-> flowMetrics.samples],
                         stats)},
      updated \in {IF isFinitePrice(livePrice)
                     THEN updateOpenTrade(sim, livePrice, clock)
                     ELSE [sim |-> sim, closed |-> NullRec]}}) :
      livePrice \in {getLivePrice(state)},
      pruned \in {[state EXCEPT !.aggTrades = pruneAggTrades(@, clock)]}})

\* buildRows(now): the rows of the symbols in syms, by symbol
RECURSIVE buildRows(_, _, _)
buildRows(syms, clock, statsBy) ==
  IF syms = {} THEN << >>
  ELSE LET sym == CHOOSE s \in syms : TRUE
       IN (sym :> buildRow(symbolState[sym], decisionPlanBySymbol[sym],
                           simStateBySymbol[sym], clock, statsBy[sym],
                           [envSimConfig EXCEPT !.feeRatePct = feeRateBySymbolPct[sym]]))
          @@ buildRows(syms \ {sym}, clock, statsBy)

(***************************************************************************)
(* Live trader: income ledger (LiveTrader.syncIncome)                       *)
(***************************************************************************)
\* market symbols the venue reports income for; only MARKET is configured
IncomeSymbols == {"1000PEPEUSDT", "BTCUSDT"}
ConfiguredMarkets == {MarketSymbolOf(sym) : sym \in SYMBOLS}

EmptyIncomeStats ==
  [realizedPnlUsd |-> 0, commissionUsd |-> 0, fundingUsd |-> 0, netUsd |-> 0, events |-> 0]

\* `${tranId}:${symbol}:${incomeType}:${ts}:${income}`
IncomeKey(it) == <<it.tranId, it.symbol, it.incomeType, it.time, it.income>>

\* the body of the loop of syncIncome without the test of seenIncomeKeys
processIncomeRowNoDedupe(acc, it) ==
  IF it.symbol = "" THEN acc
  ELSE IF it.symbol \notin ConfiguredMarkets THEN acc
  ELSE
    LET maxTs == IF it.time > acc.maxTs THEN it.time ELSE acc.maxTs
        key == IncomeKey(it)
        old == IF acc.stats[it.symbol] = NullRec THEN EmptyIncomeStats ELSE acc.stats[it.symbol]
        new == [realizedPnlUsd |-> old.realizedPnlUsd
                                     + (IF it.incomeType = "REALIZED_PNL" THEN it.income ELSE 0),
                commissionUsd |-> old.commissionUsd
                                     + (IF it.incomeType = "COMMISSION" THEN it.income ELSE 0),
                fundingUsd |-> old.fundingUsd
                                     + (IF it.incomeType = "FUNDING_FEE" THEN it.income ELSE 0),
                netUsd |-> old.netUsd + it.income,
                events |-> old.events + 1]
    IN [acc EXCEPT !.stats = [acc.stats EXCEPT ![it.symbol] = new],
                   !.seen = acc.seen \cup {key},
                   !.maxTs = maxTs]

\* the body of the loop with maxTs taken from the row whatever the cursor is
processIncomeRowLastTs(acc, it) ==
  IF it.symbol = "" THEN acc
  ELSE IF it.symbol \notin ConfiguredMarkets THEN acc
  ELSE [processIncomeRowNoDedupe(acc, it) EXCEPT !.maxTs = it.time]

\* the body of the loop of syncIncome for one row; acc carries incomeStats,
\* seenIncomeKeys, maxTs and the history of replays (seenBefore: the keys seen
\* when the response arrived)
processIncomeRow(acc, it) ==
  IF it.symbol = "" THEN acc
  ELSE IF it.symbol \notin ConfiguredMarkets THEN acc
  ELSE
    LET maxTs == IF it.time > acc.maxTs THEN it.time ELSE acc.maxTs
        key == IncomeKey(it)
    IN IF key \in acc.seen
         THEN [acc EXCEPT !.maxTs = maxTs,
                          !.replays = @ \cup {IF key \in acc.seenBefore THEN "earlier" ELSE "same"}]
         ELSE processIncomeRowNoDedupe(acc, it)

RECURSIVE processIncomeRows(_, _)
processIncomeRows(acc, rows) ==
  IF rows = << >> THEN acc
  ELSE processIncomeRows(processIncomeRow(acc, Head(rows)), Tail(rows))

(***************************************************************************)
(* Live trader: order sizing (liveTrader LOT_SIZE handling)                 *)
(* Quantities are exact decimals in units of 1e-6; a step size is the       *)
(* decimal string of the venue, [units, fracLen] for units / 10^fracLen,    *)
(* hasPoint telling whether the string has a '.'                            *)
(***************************************************************************)
LIVE_MARGIN_USD == 1

RECURSIVE Pow10(_)
Pow10(n) == IF n = 0 THEN 1 ELSE 10 * Pow10(n - 1)

RECURSIVE TrailingZeros(_, _)
TrailingZeros(units, limit) ==
  IF limit = 0 THEN 0
  ELSE IF units % 10 # 0 THEN 0
  ELSE 1 + TrailingZeros(units \div 10, limit - 1)

\* toNumber(stepSize, 0), in units of 1e-6
StepToNumber(stepSize) == stepSize.units * Pow10(6 - stepSize.fracLen)

decimalsFromStep(stepSize) ==
  IF ~stepSize.hasPoint THEN 0
  ELSE stepSize.fracLen - TrailingZeros(stepSize.units, stepSize.fracLen)

\* Number(n.toFixed(decimals)): n rounded to that many decimals
toFixed(n, decimals) ==
  LET unit == Pow10(6 - decimals)
  IN ((n + unit \div 2) \div unit) * unit

\* roundDownToStep with Math.ceil in place of Math.floor
roundDownToStepCeil(value, stepSize) ==
  LET step == StepToNumber(stepSize)
  IN IF step <= 0 THEN value
     ELSE toFixed(((value + step - 1) \div step) * step, decimalsFromStep(stepSize))

roundDownToStep(value, stepSize) ==
  LET step == StepToNumber(stepSize)
  IN IF step <= 0 THEN value
     ELSE toFixed((value \div step) * step, decimalsFromStep(stepSize))

\* the entry loadExchangeInfo stores for a symbol (lot: the LOT_SIZE filter,
\* NullRec when the symbol has none)
metaOfLotFilter(lot) ==
  IF lot = NullRec
    THEN [minQty |-> 0, stepSize |-> [units |-> 1, fracLen |-> 3, hasPoint |-> TRUE]]
    ELSE [minQty |-> lot.minQty, stepSize |-> lot.stepSize]

\* normalizeQuantity; Null for null
normalizeQuantity(meta, raw) ==
  IF meta = NullRec THEN Null
  ELSE LET qty == roundDownToStep(raw, meta.stepSize)
       IN IF qty <= 0 THEN Null
          ELSE IF qty < meta.minQty THEN Null
          ELSE qty

(***************************************************************************)
(* Bounds and input domains                                                 *)
(***************************************************************************)
MaxBotTick == 26         \* kline frames the futures bot of index.js is fed
MaxBotTrades == 2       \* trades the futures bot closes
MaxHistoryClosed == 32   \* closed trades per symbol in the run that overflows the history
MaxTrailed == 1         \* trades of that run whose peak or trailing flag was written
MaxClosed == 1           \* closed trades per symbol after which the simulator is left alone
MaxAggTrades == 2        \* longest AggTrade window explored
\* Date.now() at a tick: within the last two candle periods of the history
Clocks == {(HISTORY_CANDLES - 2) * FIVE_MINUTES_MS, (HISTORY_CANDLES - 1) * FIVE_MINUTES_MS}

MARKET == "1000PEPEUSDT"
Prices == {9900, 10000, 10100, 10200}
PlanPrices == {10000, 10100}
CloseTimes == {i * FIVE_MINUTES_MS : i \in 1..HISTORY_CANDLES}
KlineTimes == {(HISTORY_CANDLES - 1) * FIVE_MINUTES_MS, HISTORY_CANDLES * FIVE_MINUTES_MS}
\* prices 0.1 % to 1.5 % apart: entries on both sides, arming, a shallow and a
\* deep drawdown, profit lock and stop loss
SimPrices == {10000, 10070, 10230, 10250, 10330, 10345, 10365}
SimCloseTimes == {HISTORY_CANDLES * FIVE_MINUTES_MS}
StoreCloseTimes == {NaN} \cup {i * FIVE_MINUTES_MS : i \in 1..(HISTORY_CANDLES + 1)}

MaxRows == 2             \* longest /fapi/v1/income response
MaxInFlight == 2         \* most income requests awaiting a response at once
MaxCursor == 3           \* largest incomeCursorTs a request still leaves with

\* income rows of the venue: two transactions with two rows each on the
\* configured market, one row of another market, one row without symbol
IncomeRows ==
  {[tranId |-> 1, symbol |-> MARKET, incomeType |-> "REALIZED_PNL", time |-> 1, income |-> 100000],
   [tranId |-> 1, symbol |-> MARKET, incomeType |-> "COMMISSION", time |-> 1, income |-> -5000],
   [tranId |-> 2, symbol |-> MARKET, incomeType |-> "FUNDING_FEE", time |-> 2, income |-> -1000],
   [tranId |-> 2, symbol |-> MARKET, incomeType |-> "TRANSFER", time |-> 2, income |-> 70000],
   [tranId |-> 3, symbol |-> "BTCUSDT", incomeType |-> "REALIZED_PNL", time |-> 3, income |-> 100000],
   [tranId |-> 4, symbol |-> "", incomeType |-> "TRANSFER", time |-> 2, income |-> 70000]}

\* responses to a request with the given startTime, in any order of rows
RECURSIVE RowSeqs(_, _)
RowSeqs(rows, n) ==
  IF n = 0 THEN {<< >>}
  ELSE LET shorter == RowSeqs(rows, n - 1)
       IN shorter \cup {Append(r, it) : r \in {q \in shorter : Len(q) = n - 1}, it \in rows}
IncomeResponses(startTime) == RowSeqs({it \in IncomeRows : it.time >= startTime}, MaxRows)

\* LOT_SIZE filters of the venue: "1", "0.001", "0.10", "0.5"; minQty 0.001, 0.1, 1, 300
StepSizes ==
  {[units |-> 1, fracLen |-> 0, hasPoint |-> FALSE],
   [units |-> 1, fracLen |-> 3, hasPoint |-> TRUE],
   [units |-> 10, fracLen |-> 2, hasPoint |-> TRUE],
   [units |-> 5, fracLen |-> 1, hasPoint |-> TRUE]}
MinQtys == {1000, 100000, 1000000, 300000000}
LotFilters == [minQty : MinQtys, stepSize : StepSizes] \cup {NullRec}
\* entry prices in 1/100 (0.07, 99, 100, 101) and effective leverages
SizingPrices == {7, 9900, 10000, 10100}
Leverages == {1, 10, 20}

\* candle-history statistics handed to analyzeDecision, in 1/100:
\* trigger 0.08 % and 2.2 % (both clamped), SETUP
SimStatsInputs ==
  {[atrPct |-> a[1], volPct |-> a[2], trendPct |-> 50, volumeRatio |-> 100] :
     a \in {<<0, 0>>, <<400, 0>>}}
\* trigger 0.08 % (clamped) and 0.5 %; SIDEWAYS and SETUP
StatsInputs ==
  {[atrPct |-> a[1], volPct |-> a[2], trendPct |-> b[1], volumeRatio |-> b[2]] :
     a \in {<<0, 0>>, <<50, 25>>}, b \in {<<0, 50>>, <<50, 100>>}}

OpenTimeOf(closeTime) == IF IsFinite(closeTime) THEN closeTime - FIVE_MINUTES_MS + 1 ELSE NaN

KlinePayloads(closeTimes, closes, volumes) ==
  {[e |-> "kline", s |-> MARKET,
    k |-> [x |-> x, o |-> c, h |-> c, l |-> c, c |-> c, v |-> v, T |-> t, t |-> OpenTimeOf(t)]] :
     x \in BOOLEAN, c \in closes, v \in volumes, t \in closeTimes}
TradePayloads(kinds, prices, qtys, times) ==
  [e : kinds, s : {MARKET}, p : prices, q : qtys, T : times, m : BOOLEAN]
MarkPayloads(prices, times) ==
  [e : {"markPriceUpdate"}, s : {MARKET}, p : prices, E : times]

CandleOf(closeTime, close, volume) ==
  [openTime |-> OpenTimeOf(closeTime), open |-> close, high |-> close, low |-> close,
   close |-> close, volume |-> volume, closeTime |-> closeTime]

\* REST kline rows: the venue returns them in ascending time order
RECURSIVE AscendingRows(_, _, _, _)
AscendingRows(closeTimes, closes, volumes, n) ==
  IF n = 0 THEN {<< >>}
  ELSE LET shorter == AscendingRows(closeTimes, closes, volumes, n - 1)
       IN shorter \cup
          {Append(r, CandleOf(t, c, v)) :
             r \in {q \in shorter : Len(q) = n - 1}, t \in closeTimes, c \in closes, v \in volumes}
RowsAscend(rows) ==
  \A i, j \in 1..Len(rows) :
    (i < j /\ IsFinite(rows[i].closeTime) /\ IsFinite(rows[j].closeTime))
      => rows[i].closeTime < rows[j].closeTime
HistoryRows(closeTimes, closes, volumes) ==
  {r \in AscendingRows(closeTimes, closes, volumes, HISTORY_CANDLES + 1) : RowsAscend(r)}

(***************************************************************************)
(* Websocket supervision (binance.js)                                       *)
(***************************************************************************)
RECONNECT_BASE_MS == 1000
RECONNECT_MAX_MS == 15000
WS_STALE_TIMEOUT_MS == 45000
WS_PING_INTERVAL_MS == 15000
STALE_CLOSE_CODE == 4000
MaxWsTicks == 6          \* the socket clock runs over this many ping intervals
MaxAttempt == 5          \* closes in a row explored before a socket opens again

NewSocket == [readyState |-> "CONNECTING", closeCode |-> Null]
\* ws && (ws.readyState === WS_STATE_OPEN || ws.readyState === WS_STATE_CONNECTING)
IsOpenOrConnecting(socket) ==
  socket # NullRec /\ socket.readyState \in {"OPEN", "CONNECTING"}

\* scheduleReconnect() without the cap on the delay
scheduleReconnectUncapped(timer, attempt) ==
  IF timer # Null
    THEN [reconnectTimer |-> timer, reconnectAttempt |-> attempt]
    ELSE [reconnectTimer |-> RECONNECT_BASE_MS * 2 ^ attempt,
          reconnectAttempt |-> attempt + 1]

\* scheduleReconnect() that starts the timer and does not keep its handle
scheduleReconnectUnrecorded(timer, attempt) ==
  IF timer # Null
    THEN [reconnectTimer |-> timer, reconnectAttempt |-> attempt]
    ELSE [reconnectTimer |-> Null, reconnectAttempt |-> attempt + 1]

\* scheduleReconnect(), as the timer and the counter it leaves
scheduleReconnect(timer, attempt) ==
  IF timer # Null
    THEN [reconnectTimer |-> timer, reconnectAttempt |-> attempt]
    ELSE [reconnectTimer |-> Min(RECONNECT_BASE_MS * 2 ^ attempt, RECONNECT_MAX_MS),
          reconnectAttempt |-> attempt + 1]

\* ensureWebsocketHealthy(), as the socket and the error text it leaves;
\* close(4000, 'stale') starts the closing handshake, the close event follows
ensureWebsocketHealthy(socket, connected, lastMessageAt, clock, error) ==
  IF ~connected \/ lastMessageAt = 0 THEN [ws |-> socket, wsLastError |-> error]
  ELSE IF clock - lastMessageAt <= WS_STALE_TIMEOUT_MS
    THEN [ws |-> socket, wsLastError |-> error]
  ELSE [ws |-> IF IsOpenOrConnecting(socket)
                 THEN [readyState |-> "CLOSING", closeCode |-> STALE_CLOSE_CODE]
                 ELSE socket,
        wsLastError |-> "stale"]

(***************************************************************************)
(* Actions                                                                  *)
(***************************************************************************)
\* boot(): hydrateHistory for every symbol, then the socket and the timers start
hydrateHistory(rowSets) ==
  /\ ~booted
  /\ booted' = TRUE
  /\ \E rowsBy \in [SYMBOLS -> rowSets], failedBy \in [SYMBOLS -> BOOLEAN] :
       symbolState' = [sym \in SYMBOLS |->
                         hydrateHistoryForSymbol(symbolState[sym], rowsBy[sym], failedBy[sym])]
  /\ UNCHANGED <<lastOp, lastEvent, repeated>>
  /\ UNCHANGED <<tickVars, incomeVars, botVars, qtyVars, traderVars, wsVars>>

\* boot(): hydrateFeeRates, awaited with hydrateHistory before the first tick;
\* fetchFuturesCommissionRatePct answers rate for a symbol, or fails (Null) and
\* leaves the fallback.  hydrateHistory and hydrateFeeRates write disjoint state.
hydrateFeeRates(rates) ==
  /\ ~booted
  /\ lastOp = "init"
  /\ \E rateBy \in [SYMBOLS -> rates \cup {Null}] :
       feeRateBySymbolPct' = [sym \in SYMBOLS |->
                                IF IsFinite(rateBy[sym]) /\ rateBy[sym] >= 0
                                  THEN rateBy[sym] ELSE feeRateBySymbolPct[sym]]
  /\ lastOp' = "fees"
  /\ UNCHANGED <<now, decisionPlanBySymbol, simStateBySymbol, plannedCycles, replannedCycles,
                 planTrace, openedCount, openCall, closedLog, envSimConfig, alive, wsLastError>>
  /\ UNCHANGED <<booted, symbolState, lastEvent, repeated>>
  /\ UNCHANGED <<incomeVars, botVars, qtyVars, traderVars, wsVars>>

\* a frame arrives on the websocket
\* (recordEvents: whether the history variables follow the frames)
onMessage(payloads, recordEvents) ==
  \E payload \in payloads :
    /\ alive
    /\ applyStreamEvent(payload)
    /\ \A sym \in SYMBOLS : Len(symbolState'[sym].aggTrades) <= MaxAggTrades
    /\ lastOp' = "message"
    /\ IF recordEvents
         THEN /\ lastEvent' = payload
              /\ repeated' = (lastOp = "message" /\ lastEvent = payload)
         ELSE UNCHANGED <<lastEvent, repeated>>
    /\ wsLastMessageAt' = wsClock
    /\ UNCHANGED booted
    /\ UNCHANGED <<ws, wsConnected, reconnectTimer, reconnectAttempt, pingTimer, wsClock,
                   wsTrace>>
    /\ UNCHANGED <<tickVars, incomeVars, botVars, qtyVars, traderVars>>

\* tick() in which ensureWebsocketHealthy, buildRows or render throws.  tick has
\* no try block and is the callback handed to setInterval, and the process
\* registers no 'uncaughtException' handler: the exception leaves the callback
\* and the runtime ends the process.  Nothing is written on the way.
tickThrows ==
  /\ booted
  /\ alive
  /\ alive' = FALSE
  /\ lastOp' = "tickThrew"
  /\ UNCHANGED <<now, decisionPlanBySymbol, simStateBySymbol, plannedCycles, replannedCycles,
                 planTrace, openedCount, openCall, closedLog, envSimConfig, feeRateBySymbolPct,
                 wsLastError>>
  /\ UNCHANGED <<booted, symbolState, lastEvent, repeated>>
  /\ UNCHANGED <<incomeVars, botVars, qtyVars, traderVars, wsVars>>

\* connectWebSocket(): called by boot() once the history is loaded, and by the
\* reconnect timer when it expires
connectWebSocket ==
  /\ alive
  /\ booted
  /\ \/ wsTrace.op = "init"
     \/ reconnectTimer # Null
  /\ reconnectTimer' = Null
  /\ IF IsOpenOrConnecting(ws)
       THEN UNCHANGED <<ws, pingTimer>>
       ELSE ws' = NewSocket /\ pingTimer' = FALSE
  /\ wsTrace' = [wsTrace EXCEPT !.op = "connect",
                                 !.timers = IF reconnectTimer # Null THEN @ - 1 ELSE @,
                                 !.sockets = IF IsOpenOrConnecting(ws) THEN @ ELSE @ + 1]
  /\ lastOp' = "connect"
  /\ UNCHANGED <<wsConnected, wsLastMessageAt, reconnectAttempt, wsClock>>
  /\ UNCHANGED <<booted, symbolState, lastEvent, repeated>>
  /\ UNCHANGED <<tickVars, incomeVars, botVars, qtyVars, traderVars>>

\* the 'open' handler of the socket
socketOpen ==
  /\ alive
  /\ ws # NullRec
  /\ ws.readyState = "CONNECTING"
  /\ ws' = [ws EXCEPT !.readyState = "OPEN"]
  /\ wsConnected' = TRUE
  /\ wsLastError' = Null
  /\ reconnectAttempt' = 0
  /\ pingTimer' = TRUE
  /\ wsTrace' = [op |-> "open", openedAt |-> wsClock, closes |-> 0, closeCode |-> Null,
                 sockets |-> wsTrace.sockets, timers |-> wsTrace.timers]
  /\ lastOp' = "open"
  /\ UNCHANGED <<wsLastMessageAt, reconnectTimer, wsClock>>
  /\ UNCHANGED <<now, decisionPlanBySymbol, simStateBySymbol, plannedCycles, replannedCycles,
                 planTrace, openedCount, openCall, closedLog, envSimConfig, feeRateBySymbolPct, alive>>
  /\ UNCHANGED <<booted, symbolState, lastEvent, repeated>>
  /\ UNCHANGED <<incomeVars, botVars, qtyVars, traderVars>>

\* the 'error' handler of the socket
socketError ==
  /\ alive
  /\ ws # NullRec
  /\ ws.readyState \in {"CONNECTING", "OPEN", "CLOSING"}
  /\ wsLastError' = "error"
  /\ lastOp' = "error"
  /\ UNCHANGED <<now, decisionPlanBySymbol, simStateBySymbol, plannedCycles, replannedCycles,
                 planTrace, openedCount, openCall, closedLog, envSimConfig, feeRateBySymbolPct, alive>>
  /\ UNCHANGED <<booted, symbolState, lastEvent, repeated>>
  /\ UNCHANGED <<incomeVars, botVars, qtyVars, traderVars, wsVars>>

\* the 'close' handler of the socket: after the handshake ws.close(code) began,
\* or with a code of the network's when the connection is lost or refused
socketClose(codes) ==
  /\ alive
  /\ ws # NullRec
  /\ reconnectAttempt < MaxAttempt
  /\ \E code \in (IF ws.readyState = "CLOSING" THEN {ws.closeCode} ELSE codes),
        scheduled \in {scheduleReconnect(reconnectTimer, reconnectAttempt)} :
       wsTrace' = [wsTrace EXCEPT
                     !.op = "close", !.closes = @ + 1, !.closeCode = code,
                     !.sockets = IF ws.readyState \in {"OPEN", "CONNECTING"} THEN @ - 1 ELSE @,
                     !.timers = IF scheduled.reconnectAttempt > reconnectAttempt
                                  THEN @ + 1 ELSE @]
  /\ wsConnected' = FALSE
  /\ pingTimer' = FALSE
  /\ wsLastError' = "closed"
  /\ ws' = NullRec
  /\ \E scheduled \in {scheduleReconnect(reconnectTimer, reconnectAttempt)} :
       /\ reconnectTimer' = scheduled.reconnectTimer
       /\ reconnectAttempt' = scheduled.reconnectAttempt
  /\ lastOp' = "close"
  /\ UNCHANGED <<wsLastMessageAt, wsClock>>
  /\ UNCHANGED <<now, decisionPlanBySymbol, simStateBySymbol, plannedCycles, replannedCycles,
                 planTrace, openedCount, openCall, closedLog, envSimConfig, feeRateBySymbolPct, alive>>
  /\ UNCHANGED <<booted, symbolState, lastEvent, repeated>>
  /\ UNCHANGED <<incomeVars, botVars, qtyVars, traderVars>>

\* a frame arrives on the open socket
socketMessage(payloads) ==
  /\ ws # NullRec
  /\ ws.readyState = "OPEN"
  /\ onMessage(payloads, FALSE)

\* a ping interval goes by
passTime ==
  /\ alive
  /\ wsClock < MaxWsTicks * WS_PING_INTERVAL_MS
  /\ wsClock' = wsClock + WS_PING_INTERVAL_MS
  /\ lastOp' = "time"
  /\ UNCHANGED <<ws, wsConnected, wsLastMessageAt, reconnectTimer, reconnectAttempt,
                 pingTimer, wsTrace>>
  /\ UNCHANGED <<booted, symbolState, lastEvent, repeated>>
  /\ UNCHANGED <<tickVars, incomeVars, botVars, qtyVars, traderVars>>

\* maybeOpenTrade called on its own (simulator.js exports it), on the simulator
\* state reached so far, with a plan and a live price of the caller's choice
maybeOpenTradeCall(plans, prices) ==
  /\ \E sym \in SYMBOLS, plan \in plans, livePrice \in prices :
       \E r \in {maybeOpenTrade(simStateBySymbol[sym], plan, livePrice, now, envSimConfig)} :
         /\ simStateBySymbol' = [simStateBySymbol EXCEPT ![sym] = r.sim]
         /\ decisionPlanBySymbol' = [decisionPlanBySymbol EXCEPT ![sym] = r.plan]
         /\ openedCount' = [openedCount EXCEPT
                              ![sym] = @ + (IF r.opened # NullRec THEN 1 ELSE 0)]
         /\ openCall' = [symbol |-> sym, sim |-> simStateBySymbol[sym], plan |-> plan,
                         livePrice |-> livePrice, opened |-> r.opened]
  /\ lastOp' = "maybeOpenTrade"
  /\ UNCHANGED <<now, plannedCycles, replannedCycles, planTrace, closedLog, envSimConfig,
                 feeRateBySymbolPct, alive, wsLastError>>
  /\ UNCHANGED <<booted, symbolState, lastEvent, repeated>>
  /\ UNCHANGED <<incomeVars, botVars, qtyVars, traderVars, wsVars>>

\* a trade whose peak or trailing flag updateOpenTrade has written since it opened
IsTrailed(trade) ==
  trade.trailingArmed \/ trade.peakNetPnlUsd # -(trade.entryFeeUsd + trade.estimatedExitFeeUsd)

RECURSIVE CountTrailed(_)
CountTrailed(trades) ==
  IF trades = << >> THEN 0
  ELSE (IF IsTrailed(Head(trades)) THEN 1 ELSE 0) + CountTrailed(Tail(trades))

\* updateOpenTrade called on its own (simulator.js exports it) on the simulator
\* state reached so far, with a live price of the caller's choice, one second
\* after the call before it
updateOpenTradeCall(prices) ==
  /\ \E sym \in SYMBOLS, livePrice \in prices :
       /\ Len(closedLog[sym]) < MaxHistoryClosed
       /\ simStateBySymbol[sym].activeTrade # NullRec
       /\ \E clock \in {now + 1000} :
          \E r \in {updateOpenTrade(simStateBySymbol[sym], livePrice, clock)} :
            \E log \in {IF r.closed # NullRec THEN Append(closedLog[sym], r.closed)
                                              ELSE closedLog[sym]} :
              /\ r.sim # simStateBySymbol[sym]      \* a call without effect is left out
              /\ CountTrailed(log)
                   + (IF r.sim.activeTrade # NullRec /\ IsTrailed(r.sim.activeTrade)
                        THEN 1 ELSE 0) <= MaxTrailed
              /\ simStateBySymbol' = [simStateBySymbol EXCEPT ![sym] = r.sim]
              /\ closedLog' = [closedLog EXCEPT ![sym] = log]
              /\ now' = clock
  /\ lastOp' = "updateOpenTrade"
  /\ UNCHANGED <<decisionPlanBySymbol, plannedCycles, replannedCycles, planTrace, openedCount,
                 openCall, envSimConfig, feeRateBySymbolPct, alive, wsLastError>>
  /\ UNCHANGED <<booted, symbolState, lastEvent, repeated>>
  /\ UNCHANGED <<incomeVars, botVars, qtyVars, traderVars, wsVars>>

\* syncIncome up to its await: the request leaves with startTime = incomeCursorTs
syncIncomeRequest ==
  /\ Len(incomeInFlight) < MaxInFlight
  /\ incomeCursorTs <= MaxCursor
  /\ incomeInFlight' = Append(incomeInFlight, incomeCursorTs)
  /\ incomeTrace' = [op |-> "request", rows |-> << >>]
  /\ UNCHANGED <<incomeStats, seenIncomeKeys, incomeCursorTs, replayedRows>>
  /\ UNCHANGED <<storeVars, tickVars, botVars, qtyVars, traderVars, wsVars>>

\* syncIncome after its await: the response of one request in flight is
\* processed in one go
syncIncomeResponse ==
  \E i \in 1..Len(incomeInFlight) :
    \E rows \in IncomeResponses(incomeInFlight[i]) :
      LET acc == processIncomeRows(
                   [stats |-> incomeStats, seen |-> seenIncomeKeys, maxTs |-> incomeCursorTs,
                    replays |-> replayedRows, seenBefore |-> seenIncomeKeys], rows)
      IN /\ incomeStats' = acc.stats
         /\ seenIncomeKeys' = acc.seen
         /\ incomeCursorTs' = acc.maxTs + 1
         /\ replayedRows' = acc.replays
         /\ incomeTrace' = [op |-> "response", rows |-> rows]
         /\ incomeInFlight' = [j \in 1..(Len(incomeInFlight) - 1) |->
                                 IF j < i THEN incomeInFlight[j] ELSE incomeInFlight[j + 1]]
         /\ UNCHANGED <<storeVars, tickVars, botVars, qtyVars, traderVars, wsVars>>

\* syncIncome after its await, when the response is not an array or the
\* request failed: nothing is recorded
syncIncomeFailure ==
  \E i \in 1..Len(incomeInFlight) :
    /\ incomeInFlight' = [j \in 1..(Len(incomeInFlight) - 1) |->
                            IF j < i THEN incomeInFlight[j] ELSE incomeInFlight[j + 1]]
    /\ incomeTrace' = [op |-> "failure", rows |-> << >>]
    /\ UNCHANGED <<incomeStats, seenIncomeKeys, incomeCursorTs, replayedRows>>
    /\ UNCHANGED <<storeVars, tickVars, botVars, qtyVars, traderVars, wsVars>>

\* bootstrap: loadExchangeInfo stores the meta of the configured market, when
\* the venue lists it
loadExchangeInfo ==
  /\ symbolMeta = NullRec
  /\ \E lot \in LotFilters : symbolMeta' = metaOfLotFilter(lot)
  /\ UNCHANGED <<qtyRaw, qtyOut, orderQty, traderLeverage, maxLeverageBySymbol,
                 effectiveLeverageBySymbol, leverageCalls>>
  /\ UNCHANGED <<storeVars, tickVars, incomeVars, botVars, traderVars, wsVars>>

\* openPosition up to the sizing of its order: rawQty, normalizeQuantity and
\* the throw on a null quantity (no order is placed then)
openPosition ==
  \E price \in SizingPrices, leverage \in Leverages :
    LET rawQty == (LIVE_MARGIN_USD * leverage * Pow10(6) * 100) \div price
        qty == normalizeQuantity(symbolMeta, rawQty)
    IN /\ qtyRaw' = rawQty
       /\ qtyOut' = qty
       /\ orderQty' = IF qty = Null THEN Null ELSE qty
       /\ UNCHANGED <<symbolMeta, traderLeverage, maxLeverageBySymbol,
                      effectiveLeverageBySymbol, leverageCalls>>
       /\ UNCHANGED <<storeVars, tickVars, incomeVars, botVars, traderVars, wsVars>>

(***************************************************************************)
(* Live trader adapter: orders and reconciliation (liveTrader.js)          *)
(***************************************************************************)
\* the markets the live trader is bootstrapped with
LiveMarkets == {"1000PEPEUSDT", "1000FLOKIUSDT"}
\* LIVE_TRADING_CONFIG.leverage
LIVE_LEVERAGE == SIM_LEVERAGE
\* the LOT_SIZE filter of these markets: minQty 0.001, stepSize "0.001"
LiveMeta == metaOfLotFilter([minQty |-> 1000,
                             stepSize |-> [units |-> 1, fracLen |-> 3, hasPoint |-> TRUE]])
\* entry prices: 100.00, and 30000.00, at which the margin sizes below one step
LivePrices == {10000, 3000000}
\* the side the strategy trades each market on
SidesOf(sym) == IF sym = "1000PEPEUSDT" THEN {"long"} ELSE {"short"}

\* error codes of the venue: post-only order would match at once, and another one
POST_ONLY_REJECT == -5022
OTHER_REJECT == -1000

(***************************************************************************)
(* Live trader: leverage negotiation (LiveTrader.configureLeverage)         *)
(***************************************************************************)
\* the venue's code for an invalid leverage level
INVALID_LEVERAGE == -4028

\* getLeverageCandidates, from maxLeverageBySymbol.get(symbol) (Null when the
\* bracket is unknown) and this.leverage
getLeverageCandidates(maxLeverage, thisLeverage) ==
  LET cap == Min(20, Max(1, IF maxLeverage = Null THEN 20 ELSE maxLeverage))
      target == Min(cap, thisLeverage)
      seeds == <<target, 20, 15, 12, 10, 8, 5, 3, 2, 1>>
      RECURSIVE loop(_, _)
      loop(i, out) ==
        IF i > Len(seeds) THEN out
        ELSE LET bounded == Min(cap, Max(1, seeds[i]))
             IN loop(i + 1, IF \E j \in DOMAIN out : out[j] = bounded
                              THEN out ELSE Append(out, bounded))
  IN loop(1, << >>)

\* what the venue may answer to setLeverage(symbol, candidate): the leverage now
\* set (echoed, or left out of the response), or an error with -4028, with
\* another code, or without a code in its message
SetLeverageReplies(candidate) ==
  {[kind |-> "ok", leverage |-> l, code |-> Null] : l \in {candidate, Null}}
    \cup {[kind |-> "error", leverage |-> Null, code |-> c] :
            c \in {INVALID_LEVERAGE, OTHER_REJECT, Null}}

\* one pass of the loop of configureLeverage that goes on after every rejection
configureLeverageStepRetrying(call, reply) ==
  LET candidate == call.candidates[Len(call.tried) + 1]
      tried == Append(call.tried, [candidate |-> candidate, kind |-> reply.kind,
                                   code |-> reply.code])
      accepted == IF reply.leverage = Null THEN candidate ELSE reply.leverage
  IN IF reply.kind = "ok"
       THEN [call EXCEPT !.tried = tried, !.done = TRUE, !.returned = "effective",
                         !.effective = Min(20, Max(1, accepted))]
     ELSE IF Len(tried) < Len(call.candidates)
       THEN [call EXCEPT !.tried = tried]
     ELSE [call EXCEPT !.tried = tried, !.done = TRUE, !.returned = "lastError",
                       !.effective = 1]

\* one pass of the loop of configureLeverage: the request for the next candidate
\* is answered; the call ends with the accepted leverage, or with the fallback 1
\* after a rejection that is not -4028 or after the last candidate
configureLeverageStep(call, reply) ==
  LET candidate == call.candidates[Len(call.tried) + 1]
      tried == Append(call.tried, [candidate |-> candidate, kind |-> reply.kind,
                                   code |-> reply.code])
      accepted == IF reply.leverage = Null THEN candidate ELSE reply.leverage
  IN IF reply.kind = "ok"
       THEN [call EXCEPT !.tried = tried, !.done = TRUE, !.returned = "effective",
                         !.effective = Min(20, Max(1, accepted))]
     ELSE IF reply.code = INVALID_LEVERAGE /\ Len(tried) < Len(call.candidates)
       THEN [call EXCEPT !.tried = tried]
     ELSE [call EXCEPT !.tried = tried, !.done = TRUE, !.returned = "lastError",
                       !.effective = 1]

\* bootstrap: loadLeverageBrackets, before any configureLeverage; a market the
\* response has no bracket for stays without a maximum
loadLeverageBrackets(maxima) ==
  /\ \A sym \in LiveMarkets : leverageCalls[sym] = NullRec /\ maxLeverageBySymbol[sym] = Null
  /\ \E maxBy \in [LiveMarkets -> maxima \cup {0}] :
       maxLeverageBySymbol' = [sym \in LiveMarkets |->
                                 IF maxBy[sym] > 0 THEN maxBy[sym] ELSE Null]
  /\ UNCHANGED <<symbolMeta, qtyRaw, qtyOut, orderQty, traderLeverage,
                 effectiveLeverageBySymbol, leverageCalls>>
  /\ UNCHANGED <<storeVars, tickVars, incomeVars, botVars, traderVars, wsVars>>

\* configureLeverage(symbol) up to its first await
configureLeverageCall ==
  /\ \E sym \in LiveMarkets :
       /\ leverageCalls[sym] = NullRec
       /\ leverageCalls' = [leverageCalls EXCEPT ![sym] =
            [candidates |-> getLeverageCandidates(maxLeverageBySymbol[sym], traderLeverage),
             tried |-> << >>, done |-> FALSE, returned |-> "none", effective |-> Null]]
  /\ UNCHANGED <<symbolMeta, qtyRaw, qtyOut, orderQty, traderLeverage, maxLeverageBySymbol,
                 effectiveLeverageBySymbol>>
  /\ UNCHANGED <<storeVars, tickVars, incomeVars, botVars, traderVars, wsVars>>

\* the venue answers the setLeverage request of a configureLeverage call
setLeverageReply ==
  /\ \E sym \in LiveMarkets :
       /\ leverageCalls[sym] # NullRec
       /\ ~leverageCalls[sym].done
       /\ \E reply \in SetLeverageReplies(
                          leverageCalls[sym].candidates[Len(leverageCalls[sym].tried) + 1]) :
            \E call \in {configureLeverageStep(leverageCalls[sym], reply)} :
              /\ leverageCalls' = [leverageCalls EXCEPT ![sym] = call]
              /\ effectiveLeverageBySymbol' =
                   IF call.done
                     THEN [effectiveLeverageBySymbol EXCEPT ![sym] = call.effective]
                     ELSE effectiveLeverageBySymbol
  /\ UNCHANGED <<symbolMeta, qtyRaw, qtyOut, orderQty, traderLeverage, maxLeverageBySymbol>>
  /\ UNCHANGED <<storeVars, tickVars, incomeVars, botVars, traderVars, wsVars>>

(***************************************************************************)
(* Live trader adapter: the order calls                                     *)
(***************************************************************************)

\* openPosition up to its first await, without the inFlight test
openPositionEntryUnguarded(isReady, active, busy, qty) ==
  IF ~isReady THEN "null"
  ELSE IF active # NullRec THEN "null"
  ELSE IF qty = Null THEN "throw"
  ELSE "send"

\* openPosition up to its first await: "null" for the early returns, "throw"
\* for the quantity error, "send" when the order request leaves
openPositionEntry(isReady, active, busy, qty) ==
  IF ~isReady THEN "null"
  ELSE IF active # NullRec THEN "null"
  ELSE IF busy THEN "null"
  ELSE IF qty = Null THEN "throw"
  ELSE "send"

\* closePosition up to its await; active is activePositions.get(symbol) ||
\* positionSnapshot.get(symbol)
closePositionEntry(isReady, active, busy, qty) ==
  IF ~isReady THEN "null"
  ELSE IF active = NullRec THEN "null"
  ELSE IF busy THEN "null"
  ELSE IF qty = Null THEN "throw"
  ELSE "send"

\* the positions syncPositions rebuilds from the rows of /fapi/v2/positionRisk
\* (one row per market, positionAmt signed, one-way mode)
rowsToPositions(rows) ==
  [sym \in LiveMarkets |->
     IF rows[sym] = 0 THEN NullRec
     ELSE [side |-> IF rows[sym] > 0 THEN "long" ELSE "short", quantity |-> Abs(rows[sym])]]

\* what the venue answers to the entry order (placeOpenLimitGtxWithFallback):
\* filled, nothing executed, or an error
EntryReplies(qty) ==
  {[kind |-> "result", executedQty |-> qty, code |-> 0],
   [kind |-> "result", executedQty |-> 0, code |-> 0],
   [kind |-> "error", executedQty |-> 0, code |-> POST_ONLY_REJECT],
   [kind |-> "error", executedQty |-> 0, code |-> OTHER_REJECT]}
\* ... to a market order (placeOpenMarket, and the order of closePosition)
MarketReplies(qty) ==
  {[kind |-> "result", executedQty |-> qty, code |-> 0],
   [kind |-> "error", executedQty |-> 0, code |-> OTHER_REJECT]}

Signed(side, qty) == IF side = "long" THEN qty ELSE -qty

OkTag(kind) == IF kind = "open" THEN "OPEN ok" ELSE "CLOSE ok"
FailTag(kind) == IF kind = "open" THEN "OPEN fail" ELSE "CLOSE fail"
ErrorTag(kind) == IF kind = "open" THEN "Open failed" ELSE "Close failed"

LiveEvent(op, sym, returned, sent, busy, failed) ==
  [op |-> op, symbol |-> sym, returned |-> returned, sent |-> sent, busy |-> busy,
   failed |-> failed]

RemoveAt(seq, i) ==
  [j \in 1..(Len(seq) - 1) |-> IF j < i THEN seq[j] ELSE seq[j + 1]]

MaxCalls == 2
\* order calls that reach the venue, and timer syncs, in one behaviour
MaxOrders == 2
MaxSyncs == 1
\* the venue's position is kept within this many orders of the sized quantity
MaxLots == 1

\* the catch and finally blocks of openPosition / closePosition for call i of sym
FailCall(sym, i, failed) ==
  LET call == orderCalls[sym][i]
  IN /\ lastActionBySymbol' = [lastActionBySymbol EXCEPT ![sym] = FailTag(call.kind)]
     /\ lastError' = ErrorTag(call.kind)
     /\ orderCalls' = [orderCalls EXCEPT ![sym] = RemoveAt(@, i)]
     /\ inFlight' = inFlight \ {sym}
     /\ liveEvent' = LiveEvent(call.kind \o "Reply", sym, "null", FALSE, FALSE, failed)

\* bootstrap, when it succeeds, on an account whose position mode is one of
\* positionModes (TRUE: hedge mode)
bootstrap(positionModes) ==
  /\ ~ready
  /\ \E dualSidePosition \in positionModes : isDualSidePosition' = dualSidePosition
  /\ ready' = TRUE
  /\ lastError' = Null
  /\ liveEvent' = LiveEvent("bootstrap", "", "none", FALSE, FALSE, "none")
  /\ UNCHANGED <<gtxVars, lastSync, inFlight, activePositions, positionSnapshot, lastActionBySymbol,
                 orderCalls, positionRiskInFlight, venuePosition, liveRequests>>
  /\ UNCHANGED <<storeVars, tickVars, incomeVars, botVars, qtyVars, wsVars>>

\* the state of the LiveTrader the order calls read and write
TraderState ==
  [ready |-> ready, inFlight |-> inFlight, activePositions |-> activePositions,
   positionSnapshot |-> positionSnapshot, lastActionBySymbol |-> lastActionBySymbol,
   lastError |-> lastError, orderCalls |-> orderCalls, venuePosition |-> venuePosition,
   liveEvent |-> liveEvent, liveRequests |-> liveRequests]

\* the step leaves the LiveTrader in state T; an order call does not write ready,
\* the position maps or the pending positionRisk requests before its first await
SetTraderState(T) ==
  /\ \A sym \in LiveMarkets : Len(T.orderCalls[sym]) <= MaxCalls
  /\ T.liveRequests.orders <= MaxOrders
  /\ inFlight' = T.inFlight
  /\ lastActionBySymbol' = T.lastActionBySymbol
  /\ lastError' = T.lastError
  /\ orderCalls' = T.orderCalls
  /\ venuePosition' = T.venuePosition
  /\ liveEvent' = T.liveEvent
  /\ liveRequests' = T.liveRequests
  /\ UNCHANGED <<gtxVars, ready, isDualSidePosition, lastSync, activePositions, positionSnapshot, positionRiskInFlight>>

\* openPosition(symbol, marketSymbol, side, price) up to its first await, on
\* trader state T: the states it may leave, one for each answer the venue may
\* give to the order (rejections only when venueMayReject)
openPositionStarts(T, sym, side, price, venueMayReject) ==
  LET rawQty == (LIVE_MARGIN_USD * LIVE_LEVERAGE * Pow10(6) * 100) \div price
      qty == normalizeQuantity(LiveMeta, rawQty)
      busy == sym \in T.inFlight
      entry == openPositionEntry(T.ready, T.activePositions[sym], busy, qty)
  IN IF entry = "null"
       THEN {[T EXCEPT !.liveEvent = LiveEvent("open", sym, "null", FALSE, busy, "none")]}
     ELSE IF entry = "throw"
       THEN {[T EXCEPT !.lastActionBySymbol[sym] = FailTag("open"),
                       !.lastError = ErrorTag("open"),
                       !.liveEvent = LiveEvent("open", sym, "null", FALSE, busy, "quantity")]}
     ELSE {[T EXCEPT !.orderCalls[sym] =
                        Append(@, [kind |-> "open", side |-> side, qty |-> qty,
                                   stage |-> "entry", reply |-> reply, wrote |-> FALSE]),
                     !.venuePosition[sym] = @ + Signed(side, reply.executedQty),
                     !.inFlight = @ \cup {sym},
                     !.liveEvent = LiveEvent("open", sym, "pending", TRUE, busy, "none"),
                     !.liveRequests.orders = @ + 1] :
             reply \in {r \in EntryReplies(qty) :
                          /\ venueMayReject \/ (r.kind = "result" /\ r.executedQty = qty)
                          /\ Abs(T.venuePosition[sym] + Signed(side, r.executedQty))
                               <= MaxLots * qty}}

\* closePosition(symbol, marketSymbol) up to its await, on trader state T
closePositionStarts(T, sym, venueMayReject) ==
  LET active == IF T.activePositions[sym] # NullRec THEN T.activePositions[sym]
                ELSE T.positionSnapshot[sym]
      qty == IF active = NullRec THEN Null ELSE normalizeQuantity(LiveMeta, active.quantity)
      busy == sym \in T.inFlight
      entry == closePositionEntry(T.ready, active, busy, qty)
  IN IF entry = "null"
       THEN {[T EXCEPT !.liveEvent = LiveEvent("close", sym, "null", FALSE, busy, "none")]}
     ELSE IF entry = "throw"
       THEN {[T EXCEPT !.lastActionBySymbol[sym] = FailTag("close"),
                       !.lastError = ErrorTag("close"),
                       !.liveEvent = LiveEvent("close", sym, "null", FALSE, busy, "quantity")]}
     \* a reduce-only order is rejected when the venue holds no position, and
     \* takes the venue's position to zero when it is accepted
     ELSE {[T EXCEPT !.orderCalls[sym] =
                        Append(@, [kind |-> "close", side |-> active.side, qty |-> qty,
                                   stage |-> "closing", reply |-> reply, wrote |-> FALSE]),
                     !.venuePosition[sym] = IF reply.kind = "result" THEN 0 ELSE @,
                     !.inFlight = @ \cup {sym},
                     !.liveEvent = LiveEvent("close", sym, "pending", TRUE, busy, "none"),
                     !.liveRequests.orders = @ + 1] :
             reply \in {r \in MarketReplies(qty) :
                          IF T.venuePosition[sym] = 0 THEN r.kind = "error"
                          ELSE venueMayReject \/ r.kind = "result"}}

\* openPosition called on its own
openPositionCall ==
  \E sym \in LiveMarkets, price \in LivePrices : \E side \in SidesOf(sym) :
    \E T \in openPositionStarts(TraderState, sym, side, price, TRUE) :
      /\ SetTraderState(T)
      /\ UNCHANGED <<storeVars, tickVars, incomeVars, botVars, qtyVars, wsVars>>

\* closePosition called on its own
closePositionCall ==
  \E sym \in LiveMarkets :
    \E T \in closePositionStarts(TraderState, sym, TRUE) :
      /\ SetTraderState(T)
      /\ UNCHANGED <<storeVars, tickVars, incomeVars, botVars, qtyVars, wsVars>>

\* the order calls of one iteration of the loop of buildRows (514-524):
\* closePosition when updateOpenTrade closed a trade, then openPosition when
\* maybeOpenTrade opened one, each run up to its first await
mirrorRow(T, symbol, row, venueMayReject) ==
  LET market == MarketSymbolOf(symbol)
      afterClose == IF row.closedTrade # NullRec
                      THEN closePositionStarts(T, market, venueMayReject)
                      ELSE {T}
  IN UNION {IF row.openedTrade # NullRec
              THEN openPositionStarts(T1, market, row.openedTrade.side,
                                      getLivePrice(row.state), venueMayReject)
              ELSE {T1} : T1 \in afterClose}

\* the order calls of buildRows, symbol after symbol, from the trader states Ts
RECURSIVE mirrorRows(_, _, _, _)
mirrorRows(syms, rows, Ts, venueMayReject) ==
  IF syms = {} THEN Ts
  ELSE LET sym == CHOOSE s \in syms : TRUE
       IN mirrorRows(syms \ {sym}, rows,
                     UNION {mirrorRow(T, sym, rows[sym], venueMayReject) : T \in Ts},
                     venueMayReject)

\* tick(): ensureWebsocketHealthy(), then buildRows(Date.now()) with the order calls
\* it makes, each up to its first await
\* (recordCycles: whether the history variable plannedCycles follows the plans;
\* venueMayReject: whether the venue may answer an order with a rejection)
tick(statsInputs, recordCycles, venueMayReject) ==
  /\ booted
  /\ alive
  /\ \A sym \in SYMBOLS : simStateBySymbol[sym].stats.total < MaxClosed
  /\ \E clock \in Clocks, statsBy \in [SYMBOLS -> statsInputs] :
     /\ clock >= now
     /\ \E row \in {buildRows(SYMBOLS, clock, statsBy)} :
          /\ now' = clock
          /\ symbolState' = [sym \in SYMBOLS |-> row[sym].state]
          /\ decisionPlanBySymbol' = [sym \in SYMBOLS |-> row[sym].plan]
          /\ simStateBySymbol' = [sym \in SYMBOLS |-> row[sym].sim]
          /\ plannedCycles' = [sym \in SYMBOLS |->
                IF recordCycles /\ row[sym].createdPlan
                  THEN plannedCycles[sym] \cup {row[sym].plan.cycleId}
                  ELSE plannedCycles[sym]]
          /\ replannedCycles' = [sym \in SYMBOLS |->
                IF recordCycles /\ row[sym].createdPlan
                     /\ row[sym].plan.cycleId \in plannedCycles[sym]
                  THEN replannedCycles[sym] \cup {row[sym].plan.cycleId}
                  ELSE replannedCycles[sym]]
          /\ planTrace' = [sym \in SYMBOLS |-> row[sym].trace]
          /\ openedCount' = [sym \in SYMBOLS |->
                openedCount[sym] + (IF row[sym].openedTrade # NullRec THEN 1 ELSE 0)]
          /\ closedLog' = [sym \in SYMBOLS |->
                IF row[sym].closedTrade # NullRec
                  THEN Append(closedLog[sym], row[sym].closedTrade)
                  ELSE closedLog[sym]]
          /\ \E T \in mirrorRows(SYMBOLS, row, {TraderState}, venueMayReject) :
               SetTraderState(T)
  /\ \E health \in {ensureWebsocketHealthy(ws, wsConnected, wsLastMessageAt, wsClock,
                                            wsLastError)} :
       /\ ws' = health.ws
       /\ wsLastError' = health.wsLastError
       /\ wsTrace' = [wsTrace EXCEPT
                        !.sockets = IF health.ws # ws /\ health.ws.readyState = "CLOSING"
                                      THEN @ - 1 ELSE @]
  /\ lastOp' = "tick"
  /\ UNCHANGED <<openCall, envSimConfig, feeRateBySymbolPct, alive>>
  /\ UNCHANGED <<booted, lastEvent, repeated>>
  /\ UNCHANGED <<wsConnected, wsLastMessageAt, reconnectTimer, reconnectAttempt, pingTimer,
                 wsClock>>
  /\ UNCHANGED <<incomeVars, botVars, qtyVars>>

\* how the awaited order request of a call ends: "filled" (the code goes on to
\* record the position), "fallback" (a post-only reject of the entry order, answered
\* with a market order) or "fail" (the catch block)
orderOutcome(call) ==
  IF call.reply.kind = "error"
    THEN IF call.stage = "entry" /\ call.reply.code \in {POST_ONLY_REJECT, -2010}
           THEN "fallback" ELSE "fail"
  ELSE IF call.kind = "close" THEN "filled"
  ELSE IF call.reply.executedQty > 0 THEN "filled"
  ELSE "fail"

\* activePositions after the order request of a call ended, where a failed close
\* drops the entry as a successful one does
positionsAfterOrderDropping(positions, sym, call, outcome) ==
  IF call.kind = "close" THEN [positions EXCEPT ![sym] = NullRec]
  ELSE IF outcome = "filled"
    THEN [positions EXCEPT ![sym] = [side |-> call.side, quantity |-> call.reply.executedQty]]
  ELSE positions

\* activePositions after the order request of a call ended
positionsAfterOrder(positions, sym, call, outcome) ==
  IF outcome # "filled" THEN positions
  ELSE IF call.kind = "open"
    THEN [positions EXCEPT ![sym] = [side |-> call.side, quantity |-> call.reply.executedQty]]
  ELSE [positions EXCEPT ![sym] = NullRec]

\* openPosition / closePosition resumed after the await of the order request
orderReply ==
  \E sym \in LiveMarkets :
    \E i \in 1..Len(orderCalls[sym]) :
      LET call == orderCalls[sym][i]
          outcome == orderOutcome(call)
      IN /\ call.stage \in {"entry", "market", "closing"}
         /\ activePositions' = positionsAfterOrder(activePositions, sym, call, outcome)
         /\ \/ /\ outcome = "filled"
               /\ lastActionBySymbol' = [lastActionBySymbol EXCEPT ![sym] = OkTag(call.kind)]
               /\ lastError' = Null
               \* await this.syncPositions()
               /\ positionRiskInFlight' =
                    Append(positionRiskInFlight, [rows |-> venuePosition, owner |-> sym])
               /\ orderCalls' = [orderCalls EXCEPT ![sym][i].stage = "sync",
                                                   ![sym][i].wrote = TRUE]
               /\ liveEvent' = LiveEvent(call.kind \o "Reply", sym, "pending", TRUE, FALSE, "none")
               /\ UNCHANGED <<inFlight, venuePosition>>
            \/ /\ outcome = "fallback"
               /\ \E reply \in MarketReplies(call.qty) :
                    /\ Abs(venuePosition[sym] + Signed(call.side, reply.executedQty))
                         <= MaxLots * call.qty
                    /\ orderCalls' = [orderCalls EXCEPT ![sym][i].stage = "market",
                                                        ![sym][i].reply = reply]
                    /\ venuePosition' = [venuePosition EXCEPT ![sym] =
                          @ + Signed(call.side, reply.executedQty)]
               /\ liveEvent' = LiveEvent(call.kind \o "Reply", sym, "pending", TRUE, FALSE, "none")
               /\ UNCHANGED <<inFlight, lastActionBySymbol, lastError, positionRiskInFlight>>
            \/ /\ outcome = "fail"
               /\ FailCall(sym, i, "order")
               /\ UNCHANGED <<positionRiskInFlight, venuePosition>>
         /\ UNCHANGED <<gtxVars, ready, isDualSidePosition, lastSync, positionSnapshot, liveRequests>>
         /\ UNCHANGED <<storeVars, tickVars, incomeVars, botVars, qtyVars, wsVars>>

\* syncRuntime on its timer, up to the await of the positionRisk request
syncPositionsRequest ==
  /\ ready
  /\ liveRequests.syncs < MaxSyncs
  /\ liveRequests' = [liveRequests EXCEPT !.syncs = @ + 1]
  /\ positionRiskInFlight' =
       Append(positionRiskInFlight, [rows |-> venuePosition, owner |-> "runtime"])
  /\ liveEvent' = LiveEvent("syncRequest", "runtime", "pending", TRUE, FALSE, "none")
  /\ UNCHANGED <<gtxVars, ready, isDualSidePosition, lastSync, inFlight, activePositions, positionSnapshot, lastActionBySymbol,
                 lastError, orderCalls, venuePosition>>
  /\ UNCHANGED <<storeVars, tickVars, incomeVars, botVars, qtyVars, wsVars>>

\* syncPositions resumed after its await: the response holds the rows, is not an
\* array, or the request threw; then the caller resumes (syncRuntime, or the
\* openPosition / closePosition that awaited it)
syncPositionsReply(responses) ==
  \E i \in 1..Len(positionRiskInFlight), response \in responses :
    LET req == positionRiskInFlight[i]
        positions == rowsToPositions(req.rows)
    IN /\ positionRiskInFlight' = RemoveAt(positionRiskInFlight, i)
       /\ IF response = "rows"
            THEN /\ positionSnapshot' = positions
                 /\ activePositions' = positions
            ELSE UNCHANGED <<positionSnapshot, activePositions>>
       /\ IF req.owner = "runtime"
            THEN /\ lastError' = IF response = "throws" THEN "Sync failed" ELSE lastError
                 /\ liveEvent' = LiveEvent("syncReply", "runtime", "none", FALSE, FALSE,
                                           IF response = "throws" THEN "sync" ELSE "none")
                 /\ UNCHANGED <<inFlight, lastActionBySymbol, orderCalls>>
            ELSE \E j \in 1..Len(orderCalls[req.owner]) :
                   LET call == orderCalls[req.owner][j]
                   IN /\ call.stage = "sync"
                      /\ IF response = "throws"
                           THEN FailCall(req.owner, j, "sync")
                           ELSE /\ orderCalls' = [orderCalls EXCEPT ![req.owner] = RemoveAt(@, j)]
                                /\ inFlight' = inFlight \ {req.owner}
                                /\ liveEvent' = LiveEvent("syncReply", req.owner, "result",
                                                          FALSE, FALSE, "none")
                                /\ UNCHANGED <<lastActionBySymbol, lastError>>
       /\ UNCHANGED <<gtxVars, ready, isDualSidePosition, lastSync, venuePosition, liveRequests>>
       /\ UNCHANGED <<storeVars, tickVars, incomeVars, botVars, qtyVars, wsVars>>

\* the answers to /fapi/v2/positionRisk: at most MaxPositionRows rows, each for a
\* market or without a symbol, with a signed amount (1e-6 units) at a price of
\* 0.10, any positionSide and a leverage of 25; or not an array; or a failure
MaxPositionRows == 2
PositionRiskRows ==
  {[symbol |-> s, positionAmt |-> a, positionSide |-> p, notional |-> a \div 10,
    leverage |-> 25] :
     s \in LiveMarkets \cup {""}, a \in {-2000, 0, 1000}, p \in {"BOTH", "LONG", "SHORT"}}
PositionRiskAnswers ==
  {[kind |-> "rows", rows |-> r] :
     r \in UNION {[1..n -> PositionRiskRows] : n \in 0..MaxPositionRows}}
    \cup {[kind |-> k, rows |-> << >>] : k \in {"notArray", "throws"}}

\* one iteration of the loop of syncPositions, for row p, on the maps S
syncPositionsRow(S, p, dual, fallbackLeverage) ==
  LET positionAmt == IF IsFinite(p.positionAmt) THEN p.positionAmt ELSE 0
  IN IF p.symbol = "" THEN S
     ELSE IF positionAmt = 0 THEN S
     ELSE LET saved == S.effectiveLeverage[p.symbol]
              leverage == IF IsFinite(p.leverage) THEN p.leverage
                          ELSE IF saved # Null /\ saved > 0 THEN saved
                          ELSE fallbackLeverage
              S1 == IF leverage > 0
                      THEN [S EXCEPT !.effectiveLeverage[p.symbol] = Min(20, leverage)]
                      ELSE S
              side == IF dual /\ p.positionSide = "LONG" THEN "long"
                      ELSE IF dual /\ p.positionSide = "SHORT" THEN "short"
                      ELSE IF positionAmt > 0 THEN "long" ELSE "short"
              quantity == Abs(positionAmt)
              notionalUsd == Abs(p.notional)
              existing == S.snapshot[p.symbol]
          IN IF existing # NullRec /\ existing.notionalUsd >= notionalUsd THEN S1
             ELSE [S1 EXCEPT !.snapshot[p.symbol] =
                               [side |-> side, quantity |-> quantity,
                                notionalUsd |-> notionalUsd],
                             !.active[p.symbol] = [side |-> side, quantity |-> quantity]]

\* the loop of syncPositions from row i on
RECURSIVE syncPositionsRows(_, _, _, _, _)
syncPositionsRows(S, rows, i, dual, fallbackLeverage) ==
  IF i > Len(rows) THEN S
  ELSE syncPositionsRows(syncPositionsRow(S, rows[i], dual, fallbackLeverage), rows, i + 1,
                         dual, fallbackLeverage)

\* syncPositions without the two clear() calls
syncPositionsMerging(snapshot, active, effective, rows, dual, fallbackLeverage) ==
  syncPositionsRows([snapshot |-> snapshot, active |-> active,
                     effectiveLeverage |-> effective], rows, 1, dual, fallbackLeverage)

\* syncPositions past its await, with rows an array: both maps are cleared, then
\* filled row after row
syncPositionsRebuild(snapshot, active, effective, rows, dual, fallbackLeverage) ==
  syncPositionsRows([snapshot |-> [sym \in LiveMarkets |-> NullRec],
                     active |-> [sym \in LiveMarkets |-> NullRec],
                     effectiveLeverage |-> effective], rows, 1, dual, fallbackLeverage)

\* syncs a behaviour follows syncPositions through
MaxRebuilds == 2

\* syncRuntime on its timer, resumed after the await of syncPositions' request with
\* one of answers
syncPositionsResponse(answers) ==
  /\ ready
  /\ lastSync.count < MaxRebuilds
  /\ \E answer \in answers :
       /\ \E S \in {IF answer.kind = "rows"
                      THEN syncPositionsRebuild(positionSnapshot, activePositions,
                                                effectiveLeverageBySymbol, answer.rows,
                                                isDualSidePosition, traderLeverage)
                      ELSE [snapshot |-> positionSnapshot, active |-> activePositions,
                            effectiveLeverage |-> effectiveLeverageBySymbol]} :
            /\ positionSnapshot' = S.snapshot
            /\ activePositions' = S.active
            /\ effectiveLeverageBySymbol' = S.effectiveLeverage
       /\ lastError' = IF answer.kind = "throws" THEN "Sync failed" ELSE lastError
       /\ liveEvent' = LiveEvent("syncReply", "runtime", "none", FALSE, FALSE,
                                 IF answer.kind = "throws" THEN "sync" ELSE "none")
       /\ lastSync' = [count |-> lastSync.count + 1, answer |-> answer,
                       tracked |-> {sym \in LiveMarkets : activePositions[sym] # NullRec}]
  /\ UNCHANGED <<gtxVars, ready, isDualSidePosition, inFlight, lastActionBySymbol, orderCalls,
                 positionRiskInFlight, venuePosition, liveRequests>>
  /\ UNCHANGED <<symbolMeta, qtyRaw, qtyOut, orderQty, traderLeverage, maxLeverageBySymbol,
                 leverageCalls>>
  /\ UNCHANGED <<storeVars, tickVars, incomeVars, botVars, wsVars>>


\* ---------------------------------------------------------------------------
\* The standalone futures bot of index.js, for the symbol BTC.  Prices in 1/100,
\* ROI in 1/100 of a percent, scores in 1/10, volatility in 1/1000000.

BOT_SYMBOL == "BTC"
BASE_SIM_LEVERAGE == 40
FUTURES_BOT_CONFIG ==
  [takeProfitPct |-> 30, stopLossPct |-> 15, minEntryScore |-> 5, minWarmupTicks |-> 20,
   minHoldTicks |-> 5, cooldownAfterAnyCloseTicks |-> 3, cooldownAfterLossTicks |-> 25,
   cooldownAfterHardCutTicks |-> [MYX |-> 120, BTC |-> 30, ETH |-> 30, XAU |-> 30],
   trailing |-> [enable |-> TRUE, activateRoiPct |-> 1500, drawdownRoiPct |-> 300],
   hardCutLossRoiPct |-> 1200,
   algoCut |-> [enable |-> TRUE, adverseTicks |-> 25, minAbsScore |-> 2]]

\* SYMBOL_PROFILE.BTC, the fields the bot reads
BotProfile == [costPctRoundTrip |-> 6, volMax |-> 1800, maxLeverage |-> 60]

NoFuturesBotState ==
  [activeTrade |-> NullRec, tradeHistory |-> << >>,
   stats |-> [totalTrades |-> 0, wins |-> 0, losses |-> 0]]

\* Math.round of a / b for a, b > 0
RoundDiv(a, b) == (2 * a + b) \div (2 * b)

calculateDynamicLeverage(vol) ==
  LET volMax == BotProfile.volMax
      leverage == IF volMax > 0 /\ 10 * vol < 3 * volMax THEN RoundDiv(BASE_SIM_LEVERAGE * 15, 10)
                  ELSE IF volMax > 0 /\ 10 * vol < 6 * volMax THEN BASE_SIM_LEVERAGE
                  ELSE IF volMax > 0 /\ vol < volMax THEN RoundDiv(BASE_SIM_LEVERAGE * 7, 10)
                  ELSE RoundDiv(BASE_SIM_LEVERAGE * 5, 10)
  IN Max(5, Min(BotProfile.maxLeverage, leverage))

\* shouldEnterPosition; updateFuturesBot passes no symbol, so the MYX filter is
\* skipped for every symbol
shouldEnterPosition(analysis, currentTick, symbol) ==
  IF currentTick < FUTURES_BOT_CONFIG.minWarmupTicks THEN "null"
  ELSE IF analysis.absScore < FUTURES_BOT_CONFIG.minEntryScore THEN "null"
  ELSE IF symbol = "MYX" THEN
    (IF analysis.category = "sideways" THEN "null"
     ELSE IF analysis.trendDirection = "up" /\ analysis.score > 4 THEN "long"
     ELSE IF analysis.trendDirection = "down" /\ analysis.score < -4 THEN "short"
     ELSE "null")
  ELSE IF analysis.trendDirection = "up" THEN "long"
  ELSE IF analysis.trendDirection = "down" THEN "short"
  ELSE IF analysis.score > 3 THEN "long"
  ELSE IF analysis.score < -3 THEN "short"
  ELSE "long"

\* openPosition of index.js: the trade it stores
openFuturesTrade(currentPrice, side, analysis, currentTick) ==
  [side |-> side, entryPrice |-> currentPrice, entryTick |-> currentTick,
   leverage |-> calculateDynamicLeverage(analysis.vol),
   targetPrice |-> IF side = "long"
                     THEN (currentPrice * (100 + FUTURES_BOT_CONFIG.takeProfitPct)) \div 100
                     ELSE (currentPrice * (100 - FUTURES_BOT_CONFIG.takeProfitPct)) \div 100,
   stopPrice |-> IF side = "long"
                   THEN (currentPrice * (100 - FUTURES_BOT_CONFIG.stopLossPct)) \div 100
                   ELSE (currentPrice * (100 + FUTURES_BOT_CONFIG.stopLossPct)) \div 100,
   peakRoiPct |-> 0, trailingActive |-> FALSE, adverseTickCount |-> 0]

\* (unrealizedPnl - fee) / marginUsd * 100 at currentPrice
futuresRoiPct(trade, currentPrice) ==
  LET move == IF trade.side = "long" THEN currentPrice - trade.entryPrice
              ELSE trade.entryPrice - currentPrice
  IN ((trade.leverage * move * 10000) \div trade.entryPrice)
       - trade.leverage * BotProfile.costPctRoundTrip

\* closePosition of index.js
closeFuturesTrade(bot, trade, currentPrice, exitReason) ==
  LET isWin == futuresRoiPct(trade, currentPrice) > 0
      completedTrade == Spread(trade, [exitPrice |-> currentPrice, exitReason |-> exitReason,
                                       isWin |-> isWin])
      pushed == Append(bot.tradeHistory, completedTrade)
  IN [bot |-> [activeTrade |-> NullRec,
               tradeHistory |-> IF Len(pushed) > 50 THEN Tail(pushed) ELSE pushed,
               stats |-> [totalTrades |-> bot.stats.totalTrades + 1,
                          wins |-> bot.stats.wins + (IF isWin THEN 1 ELSE 0),
                          losses |-> bot.stats.losses + (IF isWin THEN 0 ELSE 1)]],
      closed |-> completedTrade]

\* cd of closeWithCooldown.  hardCd is the object cooldownAfterHardCutTicks itself
\* (an object is truthy, so "|| 0" keeps it), and Math.max of a number and an
\* object is NaN
cooldownTicks(isWin, reason) ==
  LET anyCd == FUTURES_BOT_CONFIG.cooldownAfterAnyCloseTicks
      lossCd == FUTURES_BOT_CONFIG.cooldownAfterLossTicks
      cd1 == IF ~isWin THEN Max(anyCd, lossCd) ELSE anyCd
  IN IF reason = "HARD_CUT" THEN NaN ELSE cd1

\* closeWithCooldown; the result is the bot state, the cooldown map entry and
\* the completed trade
closeWithCooldown(bot, coolUntil, currentPrice, currentTick, reason) ==
  LET r == closeFuturesTrade(bot, bot.activeTrade, currentPrice, reason)
      cd == cooldownTicks(r.closed.isWin, reason)
  IN [bot |-> r.bot,
      coolUntil |-> IF cd # NaN /\ cd > 0 THEN currentTick + cd ELSE coolUntil,
      closed |-> r.closed, opened |-> NullRec]

\* updateFuturesBot; the result is the bot state, the cooldown map entry, the
\* completed trade and the opened trade (NullRec for none)
updateFuturesBot(bot, coolUntilEntry, currentPrice, analysis, currentTick) ==
  LET activeTrade == bot.activeTrade
      coolUntil == IF coolUntilEntry = Null THEN 0 ELSE coolUntilEntry
      same == [bot |-> bot, coolUntil |-> coolUntilEntry, closed |-> NullRec,
               opened |-> NullRec]
  IN IF activeTrade = NullRec THEN
       (IF currentTick < coolUntil THEN same
        ELSE LET side == shouldEnterPosition(analysis, currentTick, "undefined")
             IN IF side = "null" THEN same
                ELSE LET opened == openFuturesTrade(currentPrice, side, analysis, currentTick)
                     IN [same EXCEPT !.bot.activeTrade = opened, !.opened = opened])
     ELSE
       LET isLong == activeTrade.side = "long"
           roiPct == futuresRoiPct(activeTrade, currentPrice)
           againstTrend == \/ (isLong /\ analysis.trendDirection = "down")
                           \/ (~isLong /\ analysis.trendDirection = "up")
           weakSignal == analysis.absScore < FUTURES_BOT_CONFIG.algoCut.minAbsScore
           t1 == [activeTrade EXCEPT
                    !.adverseTickCount = IF againstTrend /\ weakSignal THEN @ + 1 ELSE 0]
           held == currentTick - t1.entryTick
           t2 == [t1 EXCEPT
                    !.peakRoiPct = Max(@, roiPct),
                    !.trailingActive =
                       @ \/ roiPct >= FUTURES_BOT_CONFIG.trailing.activateRoiPct]
           close(b, reason) ==
             closeWithCooldown(b, coolUntilEntry, currentPrice, currentTick, reason)
       IN IF isLong /\ currentPrice >= activeTrade.targetPrice THEN close(bot, "TP")
          ELSE IF isLong /\ currentPrice <= activeTrade.stopPrice THEN close(bot, "SL")
          ELSE IF ~isLong /\ currentPrice <= activeTrade.targetPrice THEN close(bot, "TP")
          ELSE IF ~isLong /\ currentPrice >= activeTrade.stopPrice THEN close(bot, "SL")
          ELSE IF roiPct <= -FUTURES_BOT_CONFIG.hardCutLossRoiPct THEN close(bot, "HARD_CUT")
          ELSE IF /\ t1.adverseTickCount >= FUTURES_BOT_CONFIG.algoCut.adverseTicks
                  /\ held >= FUTURES_BOT_CONFIG.minHoldTicks
            THEN close([bot EXCEPT !.activeTrade = t1], "ALGO_CUT")
          ELSE IF /\ t2.trailingActive
                  /\ t2.peakRoiPct - roiPct >= FUTURES_BOT_CONFIG.trailing.drawdownRoiPct
            THEN close([bot EXCEPT !.activeTrade = t2], "TRAIL")
          ELSE [same EXCEPT !.bot.activeTrade = t2]

BotPrices == {9970, 10000, 10040, 10050}
BotAnalyses ==
  {[category |-> "bull", score |-> 6, absScore |-> 6, vol |-> 1000, trendDirection |-> "up"],
   [category |-> "sideways", score |-> -1, absScore |-> 1, vol |-> 1000,
    trendDirection |-> "down"]}

\* one kline frame of the symbol: updateTickCache counts the tick and
\* updateFuturesBot runs on it
onFuturesTick(prices, analyses) ==
  /\ symbolTickCounter < MaxBotTick
  /\ futuresBotState.stats.totalTrades < MaxBotTrades
  /\ \E currentPrice \in prices, analysis \in analyses :
       \E currentTick \in {symbolTickCounter + 1} :
         \E r \in {updateFuturesBot(futuresBotState, futuresCooldownUntilTick, currentPrice,
                                    analysis, currentTick)} :
           /\ symbolTickCounter' = currentTick
           /\ futuresBotState' = r.bot
           /\ futuresCooldownUntilTick' = r.coolUntil
           /\ lastFuturesClose' =
                IF r.closed # NullRec
                  THEN [tick |-> currentTick, reason |-> r.closed.exitReason,
                        isWin |-> r.closed.isWin]
                  ELSE lastFuturesClose
  /\ UNCHANGED <<storeVars, tickVars, incomeVars, qtyVars, traderVars, wsVars>>

(***************************************************************************)
(* openPosition in LIMIT_GTX mode, request by request (part_003 328-493)   *)
(***************************************************************************)
\* config.js: LIVE_GTX_FALLBACK_MARKET defaults to '1'
LIVE_GTX_FALLBACK_MARKET == TRUE
\* iterations of the status poll before gtxTimeoutMs has passed
MaxPolls == 2

NoGtxCall ==
  [pc |-> "none", symbol |-> "", side |-> "", qty |-> 0, status |-> NullRec, polls |-> 0,
   createCode |-> 0, executedQty |-> Null, returned |-> "none", failed |-> "none"]
NoGtxOrders ==
  [limit |-> [status |-> "none", executedQty |-> 0], marketOrders |-> << >>,
   marketExecuted |-> 0]

\* the status snapshot a GET /fapi/v1/order answers with (origQty is the order's)
OrderSnapshot(venue) == [status |-> venue.limit.status, executedQty |-> venue.limit.executedQty]

IsEndStatus(st) == st \in {"FILLED", "CANCELED", "EXPIRED", "REJECTED"}

\* the catch and finally blocks of openPosition
openPositionFails(call, reason) ==
  /\ lastActionBySymbol' = [lastActionBySymbol EXCEPT ![call.symbol] = FailTag("open")]
  /\ lastError' = ErrorTag("open")
  /\ inFlight' = inFlight \ {call.symbol}
  /\ gtxCall' = [call EXCEPT !.pc = "done", !.returned = "null", !.failed = reason]
  /\ UNCHANGED <<activePositions, positionSnapshot>>

\* openPosition once it holds the result of the entry order, up to the await of
\* syncPositions
openPositionRecords(call, executedQty) ==
  IF executedQty > 0
    THEN /\ activePositions' = [activePositions EXCEPT ![call.symbol] =
                                  [side |-> call.side, quantity |-> executedQty]]
         /\ lastActionBySymbol' = [lastActionBySymbol EXCEPT ![call.symbol] = OkTag("open")]
         /\ lastError' = Null
         /\ gtxCall' = [call EXCEPT !.pc = "sync", !.executedQty = executedQty]
         /\ UNCHANGED <<inFlight, positionSnapshot>>
    ELSE openPositionFails([call EXCEPT !.executedQty = executedQty], "notFilled")

\* the call goes on to its next await
openPositionAwaits(call) ==
  /\ gtxCall' = call
  /\ UNCHANGED <<inFlight, activePositions, positionSnapshot, lastActionBySymbol, lastError>>

\* what the steps of this call leave alone
gtxFrame ==
  /\ UNCHANGED <<gtxFallbackMarket, ready, isDualSidePosition, lastSync, orderCalls,
                 positionRiskInFlight, venuePosition, liveEvent, liveRequests>>
  /\ UNCHANGED <<storeVars, tickVars, incomeVars, botVars, qtyVars, wsVars>>

\* placeOpenLimitGtxWithFallback from the fallback test on (401-420), with the
\* status snapshot it holds: a MARKET order for the remainder, or the return
marketFallbackOrReturn(call) ==
  LET executedQty == call.status.executedQty
      remainingQty == Max(0, call.qty - executedQty)
      marketQty == IF remainingQty > 0 THEN normalizeQuantity(LiveMeta, remainingQty)
                   ELSE Null
  IN IF gtxFallbackMarket /\ remainingQty > 0 /\ marketQty # Null /\ marketQty > 0
       THEN /\ gtxVenue' = [gtxVenue EXCEPT !.marketOrders = Append(@, marketQty)]
            /\ openPositionAwaits([call EXCEPT !.pc = "market"])
       ELSE /\ UNCHANGED gtxVenue
            /\ openPositionRecords(call, Max(0, executedQty))

\* every rejection taken for a post-only conflict
isAnyRejection(code) == TRUE

\* the codes of a post-only order that would match at once (454)
isPostOnlyImmediateMatch(code) == code = -5022 \/ code = -2010

\* openPosition(symbol, marketSymbol, side, price) up to the await of
\* fetchBookTicker
openPositionGtx(prices) ==
  /\ gtxCall.pc = "none"
  /\ \E sym \in {MarketSymbolOf(s) : s \in SYMBOLS}, price \in prices :
       \E side \in SidesOf(sym) :
         LET rawQty == (LIVE_MARGIN_USD * LIVE_LEVERAGE * Pow10(6) * 100) \div price
             qty == normalizeQuantity(LiveMeta, rawQty)
             entry == openPositionEntry(ready, activePositions[sym], sym \in inFlight, qty)
             call == [NoGtxCall EXCEPT !.symbol = sym, !.side = side,
                                       !.qty = IF qty = Null THEN 0 ELSE qty]
         IN IF entry = "null"
              THEN /\ gtxCall' = [call EXCEPT !.pc = "done", !.returned = "null"]
                   /\ UNCHANGED <<inFlight, activePositions, positionSnapshot,
                                  lastActionBySymbol, lastError>>
            ELSE IF entry = "throw"
              THEN openPositionFails(call, "quantity")
            ELSE /\ inFlight' = inFlight \cup {sym}
                 /\ gtxCall' = [call EXCEPT !.pc = "bookTicker"]
                 /\ UNCHANGED <<activePositions, positionSnapshot, lastActionBySymbol,
                                lastError>>
  /\ UNCHANGED gtxVenue
  /\ gtxFrame

\* fetchBookTicker answered: the order is created, or the spread is too wide or
\* the request failed
fetchBookTickerReply ==
  /\ gtxCall.pc = "bookTicker"
  /\ \/ openPositionAwaits([gtxCall EXCEPT !.pc = "create"])
     \/ openPositionFails(gtxCall, "bookTicker")
  /\ UNCHANGED gtxVenue
  /\ gtxFrame

\* POST /fapi/v1/order of the post-only order answered: accepted (the order rests
\* in the book, the poll loop starts), or rejected with one of codes, which
\* openPosition catches (452-466)
createOrderReply(codes) ==
  /\ gtxCall.pc = "create"
  /\ \/ /\ gtxVenue' = [gtxVenue EXCEPT !.limit = [status |-> "NEW", executedQty |-> 0]]
        /\ openPositionAwaits([gtxCall EXCEPT !.pc = "poll",
                                              !.status = [status |-> "NEW", executedQty |-> 0]])
     \/ \E code \in codes :
          LET call == [gtxCall EXCEPT !.createCode = code]
          IN IF gtxFallbackMarket /\ isPostOnlyImmediateMatch(code)
               THEN /\ gtxVenue' = [gtxVenue EXCEPT !.marketOrders = Append(@, call.qty)]
                    /\ openPositionAwaits([call EXCEPT !.pc = "fallbackMarket"])
               ELSE /\ UNCHANGED gtxVenue
                    /\ openPositionFails(call, "create")
  /\ gtxFrame

\* the venue fills the resting order, in part or in full
venueFillsOrder ==
  /\ gtxVenue.limit.status \in {"NEW", "PARTIALLY_FILLED"}
  /\ \E executedQty \in {normalizeQuantity(LiveMeta, gtxCall.qty \div 3), gtxCall.qty} :
       /\ executedQty > gtxVenue.limit.executedQty
       /\ gtxVenue' = [gtxVenue EXCEPT !.limit =
            [status |-> IF executedQty = gtxCall.qty THEN "FILLED" ELSE "PARTIALLY_FILLED",
             executedQty |-> executedQty]]
  /\ UNCHANGED <<gtxCall, inFlight, activePositions, positionSnapshot, lastActionBySymbol,
                 lastError>>
  /\ gtxFrame

\* one iteration of the poll loop (368-373): getOrder answered with the order's
\* status, after which the loop goes on, breaks or has run out of time and the
\* next getOrder is sent; or getOrder threw
pollOrderReply ==
  /\ gtxCall.pc = "poll"
  /\ \/ LET call == [gtxCall EXCEPT !.status = OrderSnapshot(gtxVenue), !.polls = @ + 1]
        IN \/ /\ ~IsEndStatus(call.status.status)
              /\ call.polls < MaxPolls
              /\ openPositionAwaits(call)
           \/ openPositionAwaits([call EXCEPT !.pc = "getOrder"])
     \/ openPositionFails(gtxCall, "poll")
  /\ UNCHANGED gtxVenue
  /\ gtxFrame

\* the getOrder after the loop (375-379) answered or failed; then the cancel
\* request of an order not known to have ended (386-388), or lines 401-420
getOrderReply ==
  /\ gtxCall.pc = "getOrder"
  /\ \E status \in {OrderSnapshot(gtxVenue), gtxCall.status} :
       LET call == [gtxCall EXCEPT !.status = status]
           remainingQty == Max(0, call.qty - status.executedQty)
       IN IF remainingQty > 0 /\ ~IsEndStatus(status.status)
            THEN /\ openPositionAwaits([call EXCEPT !.pc = "cancel"])
                 /\ UNCHANGED gtxVenue
            ELSE marketFallbackOrReturn(call)
  /\ gtxFrame

\* cancelOrder answered: the order is cancelled, or the request failed, which
\* the code ignores; then getOrder is sent again
cancelOrderReply ==
  /\ gtxCall.pc = "cancel"
  /\ \/ /\ gtxVenue.limit.status \in {"NEW", "PARTIALLY_FILLED"}
        /\ gtxVenue' = [gtxVenue EXCEPT !.limit.status = "CANCELED"]
     \/ UNCHANGED gtxVenue
  /\ openPositionAwaits([gtxCall EXCEPT !.pc = "getOrderAfterCancel"])
  /\ gtxFrame

\* the getOrder after the cancel (391-397) answered or failed, then lines 401-420
getOrderAfterCancelReply ==
  /\ gtxCall.pc = "getOrderAfterCancel"
  /\ \E status \in {OrderSnapshot(gtxVenue), gtxCall.status} :
       marketFallbackOrReturn([gtxCall EXCEPT !.status = status])
  /\ gtxFrame

\* placeOpenMarket answered: the venue executed the order in full, or rejected it
placeOpenMarketReply ==
  /\ gtxCall.pc \in {"market", "fallbackMarket"}
  /\ \/ LET marketExec == gtxVenue.marketOrders[Len(gtxVenue.marketOrders)]
            executedQty == IF gtxCall.pc = "market"
                             THEN Max(0, gtxCall.status.executedQty) + Max(0, marketExec)
                             ELSE marketExec
        IN /\ gtxVenue' = [gtxVenue EXCEPT !.marketExecuted = @ + marketExec]
           /\ openPositionRecords(gtxCall, executedQty)
     \/ /\ UNCHANGED gtxVenue
        /\ openPositionFails(gtxCall, "market")
  /\ gtxFrame

\* the syncPositions openPosition awaits before it returns its result: the maps
\* are rebuilt from the venue's position, or the request threw
syncPositionsAfterOpen ==
  /\ gtxCall.pc = "sync"
  /\ \/ LET total == gtxVenue.limit.executedQty + gtxVenue.marketExecuted
            positions == rowsToPositions([sym \in LiveMarkets |->
                            IF sym = gtxCall.symbol THEN Signed(gtxCall.side, total) ELSE 0])
        IN /\ positionSnapshot' = positions
           /\ activePositions' = positions
           /\ inFlight' = inFlight \ {gtxCall.symbol}
           /\ gtxCall' = [gtxCall EXCEPT !.pc = "done", !.returned = "result"]
           /\ UNCHANGED <<lastActionBySymbol, lastError>>
     \/ openPositionFails(gtxCall, "sync")
  /\ UNCHANGED gtxVenue
  /\ gtxFrame

InitCommon ==
  /\ booted = FALSE
  /\ now = 0
  /\ symbolState = [sym \in SYMBOLS |-> InitialSymbolState]
  /\ decisionPlanBySymbol = [sym \in SYMBOLS |-> NullRec]
  /\ simStateBySymbol = [sym \in SYMBOLS |-> createSymbolSimState]
  /\ plannedCycles = [sym \in SYMBOLS |-> {}]
  /\ replannedCycles = [sym \in SYMBOLS |-> {}]
  /\ planTrace = [sym \in SYMBOLS |-> "none"]
  /\ openedCount = [sym \in SYMBOLS |-> 0]
  /\ openCall = NullRec
  /\ symbolTickCounter = 0
  /\ futuresBotState = NoFuturesBotState
  /\ futuresCooldownUntilTick = Null
  /\ lastFuturesClose = NullRec
  /\ closedLog = [sym \in SYMBOLS |-> << >>]
  /\ alive = TRUE
  /\ wsLastError = Null
  /\ ws = NullRec
  /\ wsConnected = FALSE
  /\ wsLastMessageAt = 0
  /\ reconnectTimer = Null
  /\ reconnectAttempt = 0
  /\ pingTimer = FALSE
  /\ wsClock = WS_PING_INTERVAL_MS
  /\ wsTrace = [op |-> "init", openedAt |-> Null, closes |-> 0, closeCode |-> Null,
                sockets |-> 0, timers |-> 0]
  /\ feeRateBySymbolPct = [sym \in SYMBOLS |-> envSimConfig.feeRatePct]
  /\ lastOp = "init"
  /\ lastEvent = NullRec
  /\ repeated = FALSE
  /\ incomeStats = [sym \in IncomeSymbols |-> NullRec]
  /\ seenIncomeKeys = {}
  /\ incomeCursorTs = 0
  /\ incomeInFlight = << >>
  /\ replayedRows = {}
  /\ incomeTrace = [op |-> "init", rows |-> << >>]
  /\ symbolMeta = NullRec
  /\ qtyRaw = Null
  /\ qtyOut = Null
  /\ orderQty = Null
  /\ maxLeverageBySymbol = [sym \in LiveMarkets |-> Null]
  /\ effectiveLeverageBySymbol = [sym \in LiveMarkets |-> Null]
  /\ leverageCalls = [sym \in LiveMarkets |-> NullRec]
  /\ gtxCall = NoGtxCall
  /\ gtxVenue = NoGtxOrders
  /\ ready = FALSE
  /\ isDualSidePosition = FALSE
  /\ lastSync = [count |-> 0, answer |-> [kind |-> "none", rows |-> << >>], tracked |-> {}]
  /\ inFlight = {}
  /\ activePositions = [sym \in LiveMarkets |-> NullRec]
  /\ positionSnapshot = [sym \in LiveMarkets |-> NullRec]
  /\ lastActionBySymbol = [sym \in LiveMarkets |-> "none"]
  /\ lastError = Null
  /\ orderCalls = [sym \in LiveMarkets |-> << >>]
  /\ positionRiskInFlight = << >>
  /\ venuePosition = [sym \in LiveMarkets |-> 0]
  /\ liveEvent = LiveEvent("init", "", "none", FALSE, FALSE, "none")
  /\ liveRequests = [orders |-> 0, syncs |-> 0]

\* the process started with the defaults of config.js
Init ==
  /\ envSimConfig = SIM_CONFIG
  /\ traderLeverage = LIVE_LEVERAGE
  /\ gtxFallbackMarket = LIVE_GTX_FALLBACK_MARKET
  /\ InitCommon

\* the store, the planner and the simulator driven by mark prices and klines
Next ==
  \/ hydrateHistory(HistoryRows(CloseTimes, {10000}, {7}))
  \/ onMessage(KlinePayloads(KlineTimes, {10000}, {7}), FALSE)
  \/ onMessage(MarkPayloads(PlanPrices, {0}), FALSE)
  \/ tick(StatsInputs, FALSE, TRUE)

Spec == Init /\ [][Next]_vars

\* the same, with the history of the cycles a plan was created for
NextCycles ==
  \/ hydrateHistory(HistoryRows(CloseTimes, {10000}, {7}))
  \/ onMessage(KlinePayloads(KlineTimes, {10000}, {7}), FALSE)
  \/ onMessage(MarkPayloads(PlanPrices, {0}), FALSE)
  \/ tick(StatsInputs, TRUE, TRUE)

SpecCycles == Init /\ [][NextCycles]_vars

\* the feed decoder and the store alone, over every kind of frame
NextStore ==
  \/ hydrateHistory(HistoryRows(StoreCloseTimes, {10000, 10100}, {7}))
  \/ onMessage(KlinePayloads(StoreCloseTimes, {10000, 10100}, {7}), TRUE)
  \/ onMessage(TradePayloads({"trade", "aggTrade"}, {10000}, {1}, {0}), TRUE)
  \/ onMessage(MarkPayloads({10100}, {0}), TRUE)

SpecStore == Init /\ [][NextStore]_vars

\* the trade window fed with trades whose timestamps arrive in any order, 69 s
\* and 70 s apart
NextTrades ==
  \/ hydrateHistory(HistoryRows({FIVE_MINUTES_MS}, {10000}, {7}))
  \/ onMessage(TradePayloads({"trade"}, {10000}, {0, 1}, {1000, 70000, 140000}), TRUE)

SpecTrades == Init /\ [][NextTrades]_vars

\* the simulator driven through tick() by finely spaced mark prices, in one cycle
NextSim ==
  \/ hydrateHistory(HistoryRows(CloseTimes, {10000}, {7}))
  \/ onMessage({p \in KlinePayloads(SimCloseTimes, {10000}, {7}) : ~p.k.x}, FALSE)
  \/ onMessage(MarkPayloads(SimPrices, {0}), FALSE)
  \/ tick(SimStatsInputs, FALSE, TRUE)

SpecSim == Init /\ [][NextSim]_vars

\* the process started with SIM_MIN_NET_PROFIT_USD set in the environment, to 0
\* or to the default
InitEnv ==
  /\ envSimConfig \in {[SIM_CONFIG EXCEPT !.minNetProfitUsd = m] :
                          m \in {0, SIM_MIN_NET_PROFIT_USD}}
  /\ traderLeverage = LIVE_LEVERAGE
  /\ gtxFallbackMarket = LIVE_GTX_FALLBACK_MARKET
  /\ InitCommon

\* the simulator of SpecSim, with the commission rate the venue answers (0.05 %, or
\* 0 on a zero-fee market)
NextSimFees ==
  \/ hydrateFeeRates({0, SIM_FEE_RATE_PCT})
  \/ hydrateHistory(HistoryRows(CloseTimes, {10000}, {7}))
  \/ onMessage({p \in KlinePayloads(SimCloseTimes, {10000}, {7}) : ~p.k.x}, FALSE)
  \/ onMessage(MarkPayloads(SimPrices, {0}), FALSE)
  \/ tick(SimStatsInputs, FALSE, TRUE)

SpecSimFees == InitEnv /\ [][NextSimFees]_vars

\* the planner of Spec on a feed whose kline frames may lack the high
NextKlines ==
  \/ hydrateHistory(HistoryRows(CloseTimes, {10000}, {7}))
  \/ onMessage({[p EXCEPT !.k.h = h] :
                  p \in KlinePayloads(KlineTimes, {10000}, {7}), h \in {10000, NaN}}, FALSE)
  \/ onMessage(MarkPayloads(PlanPrices, {0}), FALSE)
  \/ tick(StatsInputs, FALSE, TRUE)

SpecKlines == Init /\ [][NextKlines]_vars

\* the tick loop of Spec, with ticks that may throw
NextFaults ==
  \/ hydrateHistory(HistoryRows(CloseTimes, {10000}, {7}))
  \/ onMessage(KlinePayloads(KlineTimes, {10000}, {7}), FALSE)
  \/ onMessage(MarkPayloads(PlanPrices, {0}), FALSE)
  \/ tick(StatsInputs, FALSE, TRUE)
  \/ tickThrows

SpecFaults == Init /\ [][NextFaults]_vars

\* the socket's life under the tick loop: connects, opens, frames, silence, closes
NextWs ==
  \/ hydrateHistory(HistoryRows({FIVE_MINUTES_MS}, {10000}, {7}))
  \/ connectWebSocket
  \/ socketOpen
  \/ socketMessage(MarkPayloads({10000}, {0}))
  \/ socketError
  \/ socketClose({1006})
  \/ passTime
  \/ tick({[atrPct |-> 50, volPct |-> 25, trendPct |-> 50, volumeRatio |-> 100]}, FALSE, TRUE)

SpecWs == Init /\ [][NextWs]_vars

\* plans handed to maybeOpenTrade: thresholds 100.50 / 99.50 around 100.00, flow
\* metrics on both sides of the gate's limits (samples 20, imbalance -0.05 / +0.05)
FlowPlans ==
  {[cycleId |-> HISTORY_CANDLES * FIVE_MINUTES_MS, status |-> st, triggerPct |-> 50,
    flowImbalance |-> f, flowSamples |-> n, basePrice |-> 10000, longAbove |-> 10050,
    shortBelow |-> 9950, createdAt |-> 0, hasTriggered |-> h] :
     st \in {"SETUP", "SIDEWAYS"}, f \in {NaN, -6, -5, 0, 5, 6}, n \in {NaN, 19, 20, 25},
     h \in BOOLEAN}

\* maybeOpenTrade on every plan of FlowPlans, below, between and above the thresholds
NextOpen == maybeOpenTradeCall(FlowPlans, {9900, 9950, 10000, 10050, 10100})

SpecOpen == Init /\ [][NextOpen]_vars

\* the plan the simulator is offered after every close: untriggered, long above 10050
HistoryPlans ==
  {[cycleId |-> HISTORY_CANDLES * FIVE_MINUTES_MS, status |-> "SETUP", triggerPct |-> 50,
    flowImbalance |-> 0, flowSamples |-> 0, basePrice |-> 10000, longAbove |-> 10050,
    shortBelow |-> 9950, createdAt |-> 0, hasTriggered |-> FALSE]}

\* the simulator through more closes than its history keeps: a trade opens at
\* 10050 and the price falls to the stop, or rises to arm the trail and gives back
NextHistory ==
  \/ maybeOpenTradeCall(HistoryPlans, {10050})
  \/ updateOpenTradeCall({9900, 10200, 10150})

SpecHistory == Init /\ [][NextHistory]_vars

\* the futures bot of index.js fed with kline frames of its symbol
NextBot == onFuturesTick(BotPrices, BotAnalyses)

SpecBot == Init /\ [][NextBot]_vars

\* the income ledger fed by overlapping syncIncome calls
NextIncome ==
  \/ syncIncomeRequest
  \/ syncIncomeResponse
  \/ syncIncomeFailure

SpecIncome == Init /\ [][NextIncome]_vars

\* the process started with a target leverage of 5, 10 or 20 in its options
InitLeverage ==
  /\ envSimConfig = SIM_CONFIG
  /\ traderLeverage \in {5, LIVE_LEVERAGE, 20}
  /\ gtxFallbackMarket = LIVE_GTX_FALLBACK_MARKET
  /\ InitCommon

\* bootstrap's leverage negotiation, with bracket maxima of 3, 10 and 50
NextLeverage ==
  \/ loadLeverageBrackets({3, 10, 50})
  \/ configureLeverageCall
  \/ setLeverageReply

SpecLeverage == InitLeverage /\ [][NextLeverage]_vars

\* the sizing of live orders
NextQty ==
  \/ loadExchangeInfo
  \/ openPosition

SpecQty == Init /\ [][NextQty]_vars

\* the live trader: orders of two markets and the reconciliation of positions
NextLive ==
  \/ bootstrap({FALSE})
  \/ openPositionCall
  \/ closePositionCall
  \/ orderReply
  \/ syncPositionsRequest
  \/ syncPositionsReply({"rows", "notArray", "throws"})

SpecLive == Init /\ [][NextLive]_vars

\* the tick loop of Spec with the live trader behind it and its runtime sync, on
\* a venue that accepts and fills every order and answers every positionRisk
\* request: boot() awaits bootstrap() before the first tick
liveTick(statsInputs) ==
  /\ ready
  /\ tick(statsInputs, FALSE, FALSE)

NextMirror ==
  \/ hydrateHistory(HistoryRows(CloseTimes, {10000}, {7}))
  \/ bootstrap({FALSE})
  \/ onMessage(KlinePayloads(KlineTimes, {10000}, {7}), FALSE)
  \/ onMessage(MarkPayloads(PlanPrices, {0}), FALSE)
  \/ liveTick({s \in StatsInputs : s.atrPct > 0 /\ s.trendPct > 0})
  \/ orderReply
  \/ syncPositionsRequest
  \/ syncPositionsReply({"rows"})

SpecMirror == Init /\ [][NextMirror]_vars

\* the reconciliation of positions, on accounts in one-way and in hedge mode
NextSync ==
  \/ bootstrap(BOOLEAN)
  \/ syncPositionsResponse(PositionRiskAnswers)

SpecSync == Init /\ [][NextSync]_vars

\* one openPosition call in LIMIT_GTX mode, with and without the MARKET fallback
InitGtx ==
  /\ envSimConfig = SIM_CONFIG
  /\ traderLeverage = LIVE_LEVERAGE
  /\ gtxFallbackMarket \in BOOLEAN
  /\ InitCommon

NextGtx ==
  \/ bootstrap({FALSE})
  \/ openPositionGtx(LivePrices)
  \/ fetchBookTickerReply
  \/ createOrderReply({-5022, -2010, OTHER_REJECT})
  \/ venueFillsOrder
  \/ pollOrderReply
  \/ getOrderReply
  \/ cancelOrderReply
  \/ getOrderAfterCancelReply
  \/ placeOpenMarketReply
  \/ syncPositionsAfterOpen

SpecGtx == InitGtx /\ [][NextGtx]_vars

(***************************************************************************)
(* Claims                                                                   *)
(***************************************************************************)
SameCycle(sym) ==
  /\ decisionPlanBySymbol[sym] # NullRec
  /\ getCurrentCycleId(symbolState[sym]) = decisionPlanBySymbol[sym].cycleId

\* C1: once the plan of a symbol has status SETUP, a tick whose syncDecisionPlan
\* call sees the plan's cycleId leaves longAbove and shortBelow as they were,
\* whatever analysis the tick computed.
C1_ThresholdsFrozenAfterSetup ==
  [][\A sym \in SYMBOLS :
       (SameCycle(sym) /\ decisionPlanBySymbol[sym].status = "SETUP")
         => /\ decisionPlanBySymbol'[sym] # NullRec
            /\ decisionPlanBySymbol'[sym].longAbove = decisionPlanBySymbol[sym].longAbove
            /\ decisionPlanBySymbol'[sym].shortBelow = decisionPlanBySymbol[sym].shortBelow]_vars

\* a SETUP plan was held, in its cycle, against an analysis with another status
\* or other thresholds
C1_Witness ==
  \E sym \in SYMBOLS :
    /\ SameCycle(sym)
    /\ decisionPlanBySymbol[sym].status = "SETUP"
    /\ planTrace[sym] = "held"
    /\ decisionPlanBySymbol[sym].basePrice # getLivePrice(symbolState[sym])

\* C2: within one cycleId the plan status only moves forward.  From every
\* reachable state and for every clock and candle statistics of the next tick:
\* a SIDEWAYS plan of the current cycle becomes SETUP exactly when the analysis
\* is SETUP, and a SETUP plan of the current cycle stays SETUP (not SIDEWAYS,
\* not null).
C2_StatusOnlyMovesForward ==
  \A sym \in SYMBOLS, clock \in Clocks, stats \in StatsInputs :
    LET plan == decisionPlanBySymbol[sym]
        row == buildRow(symbolState[sym], plan, simStateBySymbol[sym], clock, stats,
                       envSimConfig)
    IN SameCycle(sym) =>
         /\ row.plan # NullRec
         /\ row.plan.cycleId = plan.cycleId
         /\ plan.status = "SETUP" => row.plan.status = "SETUP"
         /\ (plan.status = "SIDEWAYS" /\ row.analysis.status = "SETUP")
               => row.plan.status = "SETUP"
         /\ (plan.status = "SIDEWAYS" /\ row.analysis.status # "SETUP")
               => row.plan.status = "SIDEWAYS"

\* a plan promoted from SIDEWAYS to SETUP meets, in its cycle, a tick whose
\* analysis is SIDEWAYS or WAIT
C2_Witness ==
  \E sym \in SYMBOLS, clock \in Clocks, stats \in StatsInputs :
    /\ SameCycle(sym)
    /\ decisionPlanBySymbol[sym].status = "SETUP"
    /\ planTrace[sym] = "promoted"
    /\ clock >= now
    /\ buildRow(symbolState[sym], decisionPlanBySymbol[sym], simStateBySymbol[sym],
                clock, stats, envSimConfig).analysis.status \in {"SIDEWAYS", "WAIT"}

\* C3: at most one plan object is ever created per symbol and cycleId, for any
\* arrival order of the kline events.
C3_OnePlanPerCycle ==
  \A sym \in SYMBOLS : replannedCycles[sym] = {}

\* C4: a symbol has at most one active trade.  Every trade ever opened is either
\* the active one or counted in stats.total, and while a trade is active
\* maybeOpenTrade, for any live price and clock, returns null and leaves the
\* SimState and the plan (hasTriggered included) as they were.
C4_AtMostOneActiveTrade ==
  \A sym \in SYMBOLS :
    LET sim == simStateBySymbol[sym]
        plan == decisionPlanBySymbol[sym]
    IN /\ openedCount[sym] = sim.stats.total + (IF sim.activeTrade # NullRec THEN 1 ELSE 0)
       /\ sim.activeTrade # NullRec =>
            \A price \in PlanPrices, clock \in Clocks :
              LET r == maybeOpenTrade(sim, plan, price, clock, SIM_CONFIG)
              IN r.opened = NullRec /\ r.sim = sim /\ r.plan = plan

\* a tick has left a trade active beside an untriggered SETUP plan of a later
\* cycle, whose threshold one of the prices crosses
C4_Witness ==
  \E sym \in SYMBOLS, price \in PlanPrices :
    LET sim == simStateBySymbol[sym]
        plan == decisionPlanBySymbol[sym]
    IN /\ lastOp = "tick"
       /\ sim.activeTrade # NullRec
       /\ plan # NullRec
       /\ plan.status = "SETUP"
       /\ ~plan.hasTriggered
       /\ sim.activeTrade.meta.cycleId # plan.cycleId
       /\ (price >= plan.longAbove \/ price <= plan.shortBelow)

\* C5: the candle ring holds at most HISTORY_CANDLES candles and its closeTime
\* values are strictly increasing, after hydration and any kline events.
C5_RingBoundedAndIncreasing ==
  \A sym \in SYMBOLS :
    LET candles == symbolState[sym].candles
    IN /\ Len(candles) <= HISTORY_CANDLES
       /\ \A i \in 1..(Len(candles) - 1) : JsLt(candles[i].closeTime, candles[i + 1].closeTime)

\* the ring is full and the last frame was a closed kline that left it full
C5_Witness ==
  /\ lastOp = "message"
  /\ lastEvent.e = "kline"
  /\ lastEvent.k.x
  /\ \E sym \in SYMBOLS :
       /\ Len(symbolState[sym].candles) = HISTORY_CANDLES
       /\ Last(symbolState[sym].candles).closeTime = lastEvent.k.T

\* C6: a kline frame applied a second time in a row leaves the candle ring and
\* nextCandleCloseTs as the first application left them.
C6_KlineReplayIdempotent ==
  [][(repeated' /\ lastOp' = "message" /\ lastEvent'.e = "kline")
       => \A sym \in SYMBOLS :
            /\ symbolState'[sym].candles = symbolState[sym].candles
            /\ symbolState'[sym].nextCandleCloseTs = symbolState[sym].nextCandleCloseTs]_vars

\* a closed kline that entered the ring was applied twice in a row
C6_Witness ==
  /\ repeated
  /\ lastOp = "message"
  /\ lastEvent.e = "kline"
  /\ lastEvent.k.x
  /\ \E sym \in SYMBOLS :
       /\ Len(symbolState[sym].candles) > 0
       /\ Last(symbolState[sym].candles).closeTime = lastEvent.k.T

CurrentRoiPct(sym) ==
  LET trade == simStateBySymbol[sym].activeTrade
  IN calculateRoiPct(calculateNetPnl(trade, getLivePrice(symbolState[sym])).netPnlUsd,
                     trade.marginUsd)

\* C7: trailingArmed never goes back to false during the life of a trade: a step
\* that keeps the armed active trade open keeps it armed.
C7_TrailingArmedMonotonic ==
  [][\A sym \in SYMBOLS :
       LET sim == simStateBySymbol[sym]
       IN (/\ sim.activeTrade # NullRec
           /\ sim.activeTrade.trailingArmed
           /\ simStateBySymbol'[sym].activeTrade # NullRec
           /\ simStateBySymbol'[sym].stats.total = sim.stats.total)
            => simStateBySymbol'[sym].activeTrade.trailingArmed]_vars

\* a tick has kept an armed trade open at a price whose ROI is below the
\* activation level
C7_Witness ==
  \E sym \in SYMBOLS :
    LET trade == simStateBySymbol[sym].activeTrade
    IN /\ lastOp = "tick"
       /\ trade # NullRec
       /\ trade.trailingArmed
       /\ CurrentRoiPct(sym) < trade.trailActivateRoiPct
       /\ trade.peakRoiPct > CurrentRoiPct(sym)

\* C8: every step that closes a trade leaves a ClosedTrade with
\* pnlUsd = grossPnlUsd - feesUsd and roiPct = pnlUsd / marginUsd * 100, and
\* adds exactly that pnlUsd to stats.realizedPnlUsd.
C8_ClosedTradeAccounting ==
  [][\A sym \in SYMBOLS :
       LET sim == simStateBySymbol[sym]
           after == simStateBySymbol'[sym]
           closed == after.lastClosed
       IN after.stats.total # sim.stats.total
            => /\ after.stats.total = sim.stats.total + 1
               /\ closed # NullRec
               /\ closed.pnlUsd = closed.grossPnlUsd - closed.feesUsd
               /\ closed.roiPct * (closed.marginUsd \div 10000) <= closed.pnlUsd * 100
               /\ closed.pnlUsd * 100 < (closed.roiPct + 1) * (closed.marginUsd \div 10000)
               /\ after.stats.realizedPnlUsd = sim.stats.realizedPnlUsd + closed.pnlUsd]_vars

\* a trade was closed at a profit by the trailing stop, fees charged
C8_Witness ==
  \E sym \in SYMBOLS :
    LET sim == simStateBySymbol[sym]
    IN /\ sim.lastClosed # NullRec
       /\ sim.lastClosed.exitReason = "TRAIL_ROI"
       /\ sim.lastClosed.feesUsd > 0
       /\ sim.lastClosed.pnlUsd > 0
       /\ sim.stats.realizedPnlUsd = sim.lastClosed.pnlUsd

RECURSIVE SumIncome(_)
SumIncome(keys) ==
  IF keys = {} THEN 0
  ELSE LET k == CHOOSE x \in keys : TRUE
       IN k[5] + SumIncome(keys \ {k})

StatsOfKeys(keys) ==
  IF keys = {} THEN NullRec
  ELSE [realizedPnlUsd |-> SumIncome({k \in keys : k[3] = "REALIZED_PNL"}),
        commissionUsd |-> SumIncome({k \in keys : k[3] = "COMMISSION"}),
        fundingUsd |-> SumIncome({k \in keys : k[3] = "FUNDING_FEE"}),
        netUsd |-> SumIncome(keys),
        events |-> Cardinality(keys)]

\* C9: a row whose key was already processed changes the IncomeStats of no
\* symbol.  Every seen key is counted exactly once, whatever responses (with
\* repeated rows, from overlapping requests) were processed, and processing any
\* row whose key is seen leaves incomeStats as it is.
C9_IncomeDedupeIdempotent ==
  /\ \A sym \in IncomeSymbols :
       incomeStats[sym] = StatsOfKeys({k \in seenIncomeKeys : k[2] = sym})
  /\ \A it \in IncomeRows :
       IncomeKey(it) \in seenIncomeKeys =>
         processIncomeRow([stats |-> incomeStats, seen |-> seenIncomeKeys,
                           maxTs |-> incomeCursorTs, replays |-> replayedRows,
                           seenBefore |-> seenIncomeKeys], it).stats = incomeStats

\* rows were replayed within one response and from an overlapping request
C9_Witness ==
  /\ replayedRows = {"same", "earlier"}
  /\ incomeStats[MARKET] # NullRec
  /\ incomeStats[MARKET].events >= 2

C11_OneOutstandingPerSymbol ==
  [][/\ \A sym \in LiveMarkets :
          /\ Len(orderCalls'[sym]) <= 1
          /\ (sym \in inFlight') <=> (Len(orderCalls'[sym]) = 1)
     /\ (liveEvent'.op \in {"open", "close"} /\ liveEvent'.symbol \in inFlight)
          => /\ liveEvent'.returned = "null"
             /\ ~liveEvent'.sent
             /\ orderCalls' = orderCalls
             /\ inFlight' = inFlight
             /\ venuePosition' = venuePosition
             /\ liveRequests' = liveRequests]_vars

\* a closePosition issued for a market whose openPosition is still in flight, with
\* a position recorded: the inFlight test is what returned null
C11_Witness ==
  /\ liveEvent.op = "close"
  /\ liveEvent.busy
  /\ liveEvent.returned = "null"
  /\ liveEvent.symbol \in inFlight
  /\ activePositions[liveEvent.symbol] # NullRec
  /\ Len(orderCalls[liveEvent.symbol]) = 1
  /\ orderCalls[liveEvent.symbol][1].kind = "open"

\* C12: while a market is in inFlight, no run of syncPositions other than the one
\* its own call awaits (the timer's syncRuntime, or the sync after another
\* market's order) changes the activePositions entry of that market.
C12_NoMidFlightReconciliation ==
  [][liveEvent'.op = "syncReply"
       => \A sym \in inFlight :
            liveEvent'.symbol # sym => activePositions'[sym] = activePositions[sym]]_vars

\* C13: when the order request of an openPosition / closePosition call fails (the
\* venue rejects it, the request throws, or nothing was executed), the call sets
\* lastError and the market's lastAction to the failure tag, returns null, and
\* neither that step nor an earlier step of the call writes the market's
\* activePositions entry.
C13_OrderFailureKeepsPositions ==
  [][liveEvent'.failed = "order"
       => LET sym == liveEvent'.symbol
          IN /\ liveEvent'.returned = "null"
             /\ lastError' \in {"Open failed", "Close failed"}
             /\ lastActionBySymbol'[sym] \in {"OPEN fail", "CLOSE fail"}
             /\ activePositions'[sym] = activePositions[sym]
             /\ \A i \in 1..Len(orderCalls[sym]) : ~orderCalls[sym][i].wrote
             /\ sym \notin inFlight']_vars

\* a closePosition whose market order the venue rejected: the position stays
C13_Witness ==
  /\ liveEvent.failed = "order"
  /\ liveEvent.op = "closeReply"
  /\ lastActionBySymbol[liveEvent.symbol] = "CLOSE fail"
  /\ lastError = "Close failed"
  /\ activePositions[liveEvent.symbol] # NullRec

\* C14: a tick whose updateOpenTrade sees a valid price at which the ROI of the
\* active trade is at or below -stopLossRoiPct closes the trade: exitReason
\* SL_ROI, isWin false, no active trade (unless the same tick opened a new one),
\* stats.total and stats.losses one higher, stats.wins unchanged.
C14_StopLossCloses ==
  [][\A sym \in SYMBOLS :
       LET sim == simStateBySymbol[sym]
           after == simStateBySymbol'[sym]
       IN (/\ lastOp' = "tick"
           /\ sim.activeTrade # NullRec
           /\ isValidPrice(getLivePrice(symbolState[sym]))
           /\ CurrentRoiPct(sym) <= -sim.activeTrade.stopLossRoiPct)
            => /\ after.lastClosed # NullRec
               /\ after.lastClosed.exitReason = "SL_ROI"
               /\ after.lastClosed.isWin = FALSE
               /\ after.lastClosed.entryTime = sim.activeTrade.entryTime
               /\ (after.activeTrade = NullRec \/ openedCount'[sym] # openedCount[sym])
               /\ after.stats.total = sim.stats.total + 1
               /\ after.stats.losses = sim.stats.losses + 1
               /\ after.stats.wins = sim.stats.wins]_vars

\* a tick closed a trade by the stop-loss, at a loss
C14_Witness ==
  \E sym \in SYMBOLS :
    LET sim == simStateBySymbol[sym]
    IN /\ lastOp = "tick"
       /\ sim.activeTrade = NullRec
       /\ sim.lastClosed # NullRec
       /\ sim.lastClosed.exitReason = "SL_ROI"
       /\ sim.lastClosed.roiPct <= -sim.lastClosed.stopLossRoiPct
       /\ sim.lastClosed.isWin = FALSE
       /\ sim.stats.losses = 1

\* C15: every trade closed with exitReason TRAIL_ROI has a positive pnlUsd and
\* isWin = true, whatever the configuration and the prices.
C15_TrailCloseIsProfit ==
  \A sym \in SYMBOLS :
    \A i \in DOMAIN simStateBySymbol[sym].history :
      LET closed == simStateBySymbol[sym].history[i]
      IN closed.exitReason = "TRAIL_ROI" => (closed.pnlUsd > 0 /\ closed.isWin)

\* C16: flow veto.  A call of maybeOpenTrade with a SETUP plan whose flow metrics
\* are finite with flowSamples >= 20 opens no long trade (price at or above
\* longAbove) while flowImbalance < -0.05 and no short trade (price at or below
\* shortBelow) while flowImbalance > +0.05: it returns null, leaves the simulator
\* state as it was and leaves the plan, hasTriggered included, as it was.
C16_FlowVeto ==
  (lastOp = "maybeOpenTrade" /\ openCall # NullRec) =>
    LET plan == openCall.plan
        sym == openCall.symbol
    IN (/\ plan.status = "SETUP"
        /\ IsFinite(plan.flowImbalance)
        /\ IsFinite(plan.flowSamples)
        /\ plan.flowSamples >= 20
        /\ \/ (openCall.livePrice >= plan.longAbove /\ plan.flowImbalance < -5)
           \/ (openCall.livePrice <= plan.shortBelow /\ plan.flowImbalance > 5))
         => /\ openCall.opened = NullRec
            /\ simStateBySymbol[sym] = openCall.sim
            /\ decisionPlanBySymbol[sym] = plan
            /\ (~plan.hasTriggered => ~decisionPlanBySymbol[sym].hasTriggered)

\* the gate alone refused a long: no active trade, plan SETUP and not triggered,
\* exactly 20 samples, imbalance -0.06, price above longAbove
C16_Witness ==
  /\ lastOp = "maybeOpenTrade"
  /\ openCall # NullRec
  /\ openCall.sim.activeTrade = NullRec
  /\ openCall.plan.status = "SETUP"
  /\ ~openCall.plan.hasTriggered
  /\ openCall.plan.flowSamples = 20
  /\ openCall.plan.flowImbalance = -6
  /\ openCall.livePrice > openCall.plan.longAbove
  /\ openCall.opened = NullRec
  /\ simStateBySymbol[openCall.symbol].activeTrade = NullRec

\* C17: on every state of the store and at every clock, analyzeDecision returns
\* WAIT with null longAbove and shortBelow, from which no plan can be built,
\* whenever the live price is missing, the ring holds fewer than HISTORY_CANDLES
\* candles or msToNextCandle exceeds DECISION_WINDOW_MS; it returns SIDEWAYS or
\* SETUP only when none of the three holds.
C17_WaitPreconditions ==
  \A sym \in SYMBOLS, clock \in Clocks, stats \in StatsInputs :
    LET state == symbolState[sym]
        livePrice == getLivePrice(state)
        msToNextCandle == getMsToNextCandle(state, clock)
        flowMetrics == getTradeFlowMetrics(state.aggTrades)
        analysis == analyzeDecision(state.candles, livePrice, msToNextCandle,
                      [imbalance |-> flowMetrics.imbalance, samples |-> flowMetrics.samples],
                      stats)
        blocked == \/ livePrice = Null
                   \/ livePrice = NaN
                   \/ Len(state.candles) < HISTORY_CANDLES
                   \/ msToNextCandle > DECISION_WINDOW_MS
    IN /\ analysis.status \in {"WAIT", "SIDEWAYS", "SETUP"}
       /\ blocked => /\ analysis.status = "WAIT"
                     /\ analysis.longAbove = Null
                     /\ analysis.shortBelow = Null
                     /\ ~canBuild(analysis, livePrice)
       /\ analysis.status \in {"SIDEWAYS", "SETUP"} => ~blocked

\* a tick ran with a full ring and a live price, outside the decision window, and
\* left the symbol without a plan
C17_Witness ==
  \E sym \in SYMBOLS :
    /\ lastOp = "tick"
    /\ Len(symbolState[sym].candles) = HISTORY_CANDLES
    /\ isFinitePrice(getLivePrice(symbolState[sym]))
    /\ getMsToNextCandle(symbolState[sym], now) > DECISION_WINDOW_MS
    /\ getMsToNextCandle(symbolState[sym], now) # Infinity
    /\ decisionPlanBySymbol[sym] = NullRec

\* C18: on every state of the store and at every clock, an analysis with status
\* SIDEWAYS or SETUP has a triggerPct within [0.08, 2.2], and a plan created from
\* it carries that triggerPct.
C18_TriggerPctClamped ==
  \A sym \in SYMBOLS, clock \in Clocks, stats \in StatsInputs :
    LET row == buildRow(symbolState[sym], decisionPlanBySymbol[sym], simStateBySymbol[sym],
                        clock, stats, envSimConfig)
    IN row.analysis.status \in {"SIDEWAYS", "SETUP"}
         => /\ row.analysis.triggerPct # NaN
            /\ row.analysis.triggerPct >= TRIGGER_FLOOR
            /\ row.analysis.triggerPct <= TRIGGER_CEILING
            /\ row.createdPlan => row.plan.triggerPct = row.analysis.triggerPct

\* C19: leverage negotiation.  The candidates of a configureLeverage call are
\* the seeds [target, 20, 15, 12, 10, 8, 5, 3, 2, 1], each capped by
\* min(bracket max, 20), first occurrences only, in that order; the requests
\* follow the candidates in order, each one after a -4028 rejection of the one
\* before; the call ends at the first acceptance with that candidate as
\* effectiveLeverage, or with effectiveLeverage 1 at a rejection with another
\* code or at the -4028 rejection of the last candidate; until then
\* effectiveLeverage is not set.
C19_LeverageNegotiation ==
  \A sym \in LiveMarkets :
    leverageCalls[sym] # NullRec =>
      LET call == leverageCalls[sym]
          cap == IF maxLeverageBySymbol[sym] = Null THEN 20
                 ELSE Min(maxLeverageBySymbol[sym], 20)
          seeds == <<traderLeverage, 20, 15, 12, 10, 8, 5, 3, 2, 1>>
          capped == [i \in DOMAIN seeds |-> Min(cap, seeds[i])]
          firstSeen == {i \in DOMAIN seeds : \A j \in 1..(i - 1) : capped[j] # capped[i]}
          nth(k) == CHOOSE i \in firstSeen : Cardinality({j \in firstSeen : j <= i}) = k
          n == Len(call.tried)
      IN /\ Len(call.candidates) = Cardinality(firstSeen)
         /\ \A k \in DOMAIN call.candidates : call.candidates[k] = capped[nth(k)]
         /\ n <= Len(call.candidates)
         /\ \A k \in 1..n : call.tried[k].candidate = call.candidates[k]
         /\ \A k \in 1..(n - 1) :
              call.tried[k].kind = "error" /\ call.tried[k].code = INVALID_LEVERAGE
         /\ IF ~call.done
              THEN /\ effectiveLeverageBySymbol[sym] = Null
                   /\ n < Len(call.candidates)
                   /\ n > 0 => (/\ call.tried[n].kind = "error"
                                /\ call.tried[n].code = INVALID_LEVERAGE)
              ELSE /\ n > 0
                   /\ IF call.tried[n].kind = "ok"
                        THEN effectiveLeverageBySymbol[sym] = call.tried[n].candidate
                        ELSE /\ effectiveLeverageBySymbol[sym] = 1
                             /\ (call.tried[n].code = INVALID_LEVERAGE
                                   => n = Len(call.candidates))

\* bracket maximum 10 and target 20: the candidates start at 10, the venue
\* rejected 10 with -4028 and accepted 8, which is the effective leverage
C19_Witness ==
  \E sym \in LiveMarkets :
    /\ maxLeverageBySymbol[sym] = 10
    /\ traderLeverage = 20
    /\ leverageCalls[sym] # NullRec
    /\ leverageCalls[sym].done
    /\ leverageCalls[sym].candidates = <<10, 8, 5, 3, 2, 1>>
    /\ Len(leverageCalls[sym].tried) = 2
    /\ leverageCalls[sym].tried[1].code = INVALID_LEVERAGE
    /\ leverageCalls[sym].tried[2].kind = "ok"
    /\ effectiveLeverageBySymbol[sym] = 8

\* C20: an exception thrown while a tick is processed does not end the tick
\* loop: after it the process is alive, so that the next tick runs, and the
\* exception is recorded in an error field.
C20_TickExceptionContained ==
  lastOp = "tickThrew" => (alive /\ wsLastError # Null)

\* C21: at every tick at which the socket is connected, has been open for longer
\* than WS_STALE_TIMEOUT_MS and has had no frame during the last WS_STALE_TIMEOUT_MS,
\* the watchdog leaves the socket closing with code 4000.
C21_WatchdogClosesStaleSocket ==
  [][(/\ lastOp' = "tick"
      /\ wsConnected
      /\ wsTrace.openedAt # Null
      /\ wsClock - wsTrace.openedAt > WS_STALE_TIMEOUT_MS
      /\ wsClock - wsLastMessageAt > WS_STALE_TIMEOUT_MS)
     => (/\ ws' # NullRec
         /\ ws'.readyState = "CLOSING"
         /\ ws'.closeCode = STALE_CLOSE_CODE)]_vars

\* C22: the k-th close in a row since the last open sets the reconnect timer to
\* min(RECONNECT_BASE_MS * 2^k, RECONNECT_MAX_MS), adds one to the attempt counter
\* and stops the heartbeat timer; every open sets the counter to 0.
C22_ReconnectBackoff ==
  [][/\ lastOp' = "close" =>
          /\ reconnectTimer' = Min(RECONNECT_BASE_MS * 2 ^ wsTrace.closes, RECONNECT_MAX_MS)
          /\ reconnectAttempt' = reconnectAttempt + 1
          /\ reconnectAttempt = wsTrace.closes
          /\ ~pingTimer'
     /\ lastOp' = "open" => reconnectAttempt' = 0]_vars

\* the fifth close in a row after an open: the delay is capped
C22_Witness ==
  /\ lastOp = "close"
  /\ wsTrace.openedAt # Null
  /\ wsTrace.closes = 5
  /\ reconnectTimer = RECONNECT_MAX_MS
  /\ reconnectAttempt = 5

\* C23: once a frame with e = aggTrade, finite price, qty > 0 and finite ts has been
\* handled, the symbol's tradePrice, tradeQty and tradeTs are the frame's and the last
\* entry of its AggTrade window is the frame's trade, with side sell exactly when
\* the frame's buyer-is-maker flag is set.
C23_AggTradeRecorded ==
  (/\ lastOp = "message"
   /\ lastEvent # NullRec
   /\ lastEvent.e = "aggTrade"
   /\ IsFinite(lastEvent.p)
   /\ IsFinite(lastEvent.q) /\ lastEvent.q > 0
   /\ IsFinite(lastEvent.T))
  => \A sym \in SYMBOLS :
       MarketSymbolOf(sym) = lastEvent.s =>
         /\ symbolState[sym].tradePrice = lastEvent.p
         /\ symbolState[sym].tradeQty = lastEvent.q
         /\ symbolState[sym].tradeTs = lastEvent.T
         /\ Len(symbolState[sym].aggTrades) > 0
         /\ Last(symbolState[sym].aggTrades).ts = lastEvent.T
         /\ Last(symbolState[sym].aggTrades).qty = lastEvent.q
         /\ (Last(symbolState[sym].aggTrades).side = "sell") <=> lastEvent.m

\* a numeric field of the payload is not a finite number
HasNonFiniteField(payload) ==
  IF payload.e \in {"trade", "aggTrade"}
    THEN \E v \in {payload.p, payload.q, payload.T} : ~IsFinite(v)
  ELSE IF payload.e = "markPriceUpdate"
    THEN \E v \in {payload.p, payload.E} : ~IsFinite(v)
  ELSE \E v \in {payload.k.o, payload.k.h, payload.k.l, payload.k.c, payload.k.v,
                 payload.k.T, payload.k.t} : ~IsFinite(v)

\* C24: handling a Trade, Mark or Kline frame with a non-finite numeric field leaves
\* the prices, the trade window, the candle ring, lastVolume5m and
\* nextCandleCloseTs of every symbol as they were.
C24_NonFiniteDropped ==
  [][(lastOp' = "message" /\ HasNonFiniteField(lastEvent'))
     => \A sym \in SYMBOLS :
          /\ symbolState'[sym].markPrice = symbolState[sym].markPrice
          /\ symbolState'[sym].tradePrice = symbolState[sym].tradePrice
          /\ symbolState'[sym].aggTrades = symbolState[sym].aggTrades
          /\ symbolState'[sym].candles = symbolState[sym].candles
          /\ symbolState'[sym].lastVolume5m = symbolState[sym].lastVolume5m
          /\ symbolState'[sym].nextCandleCloseTs = symbolState[sym].nextCandleCloseTs]_vars

\* C25: a trade is opened only on a plan object that had not fired, and leaves it
\* fired; hasTriggered is set by nothing else and, once set, stays set for as long
\* as the plan object lives.  So every plan object opens at most one trade.
C25_PlanFiresOnce ==
  [][\A sym \in SYMBOLS :
       LET before == decisionPlanBySymbol[sym]
           after == decisionPlanBySymbol'[sym]
           opened == openedCount'[sym] > openedCount[sym]
           fresh == lastOp' = "tick" /\ planTrace'[sym] = "created"
           firedBefore == ~fresh /\ before # NullRec /\ before.hasTriggered
       IN /\ opened => (after # NullRec /\ after.hasTriggered /\ ~firedBefore)
          /\ opened => openedCount'[sym] = openedCount[sym] + 1
          /\ (after # NullRec /\ after.hasTriggered) => (opened \/ firedBefore)
          /\ (firedBefore /\ after # NullRec) => after.hasTriggered]_vars

\* the tick that closed the plan's trade at a price still beyond the plan's trigger:
\* nothing is open, and no second trade was opened
C25_Witness ==
  \E sym \in SYMBOLS :
    /\ lastOp = "tick"
    /\ simStateBySymbol[sym].stats.total = 1
    /\ simStateBySymbol[sym].activeTrade = NullRec
    /\ decisionPlanBySymbol[sym] # NullRec
    /\ decisionPlanBySymbol[sym].status = "SETUP"
    /\ decisionPlanBySymbol[sym].hasTriggered
    /\ isValidPrice(getLivePrice(symbolState[sym]))
    /\ getLivePrice(symbolState[sym]) >= decisionPlanBySymbol[sym].longAbove
    /\ openedCount[sym] = 1

\* C26: a tick on an open trade at a valid price closes it at most once, and by
\* the first rule that applies: SL_ROI when the ROI is at or below the stop loss,
\* with the peaks and trailingArmed the trade had before the tick; otherwise
\* TRAIL_ROI when the trailing drawdown applies, also when the profit lock applies
\* too; otherwise LOCK_PROFIT when the profit lock applies; otherwise no close.
C26_ExitRulePriority ==
  [][\A sym \in SYMBOLS :
       LET trade == simStateBySymbol[sym].activeTrade
           price == getLivePrice(symbolState[sym])
           closedNow == simStateBySymbol'[sym].stats.total > simStateBySymbol[sym].stats.total
           closed == simStateBySymbol'[sym].lastClosed
       IN (lastOp' = "tick" /\ trade # NullRec /\ isValidPrice(price)) =>
            LET net == calculateNetPnl(trade, price).netPnlUsd
                roi == calculateRoiPct(net, trade.marginUsd)
                peakNet == Max(trade.peakNetPnlUsd, net)
                peakRoi == IF net > trade.peakNetPnlUsd THEN roi ELSE trade.peakRoiPct
                armed == trade.trailingArmed \/ roi >= trade.trailActivateRoiPct
                stop == roi <= -trade.stopLossRoiPct
                trail == /\ armed
                         /\ peakRoi - roi >= trade.trailDdRoiPct
                         /\ net >= trade.minNetProfitUsd
                lock == /\ armed
                        /\ peakNet >= trade.minNetProfitUsd
                        /\ net <= trade.minNetProfitUsd
            IN /\ simStateBySymbol'[sym].stats.total <= simStateBySymbol[sym].stats.total + 1
               /\ stop => /\ closedNow
                          /\ closed.exitReason = "SL_ROI"
                          /\ closed.peakNetPnlUsd = trade.peakNetPnlUsd
                          /\ closed.peakRoiPct = trade.peakRoiPct
                          /\ closed.trailingArmed = trade.trailingArmed
               /\ (~stop /\ trail) => (closedNow /\ closed.exitReason = "TRAIL_ROI")
               /\ (~stop /\ ~trail /\ lock) => (closedNow /\ closed.exitReason = "LOCK_PROFIT")
               /\ (~stop /\ ~trail /\ ~lock) => ~closedNow]_vars

\* a trade closed at a tick where the trailing drawdown and the profit lock both
\* applied: armed, drawn down from its peak, net PnL exactly minNetProfitUsd
C26_Witness ==
  \E sym \in SYMBOLS :
    /\ lastOp = "tick"
    /\ simStateBySymbol[sym].lastClosed # NullRec
    /\ simStateBySymbol[sym].lastClosed.exitReason = "TRAIL_ROI"
    /\ simStateBySymbol[sym].lastClosed.trailingArmed
    /\ simStateBySymbol[sym].lastClosed.pnlUsd = simStateBySymbol[sym].lastClosed.minNetProfitUsd
    /\ simStateBySymbol[sym].lastClosed.peakNetPnlUsd
         >= simStateBySymbol[sym].lastClosed.minNetProfitUsd
    /\ simStateBySymbol[sym].lastClosed.peakRoiPct - simStateBySymbol[sym].lastClosed.roiPct
         >= simStateBySymbol[sym].lastClosed.trailDdRoiPct

\* C27: every trade closed with exitReason LOCK_PROFIT has pnlUsd > 0 and isWin.
C27_LockProfitIsProfit ==
  \A sym \in SYMBOLS :
    \A i \in DOMAIN simStateBySymbol[sym].history :
      simStateBySymbol[sym].history[i].exitReason = "LOCK_PROFIT" =>
        /\ simStateBySymbol[sym].history[i].pnlUsd > 0
        /\ simStateBySymbol[sym].history[i].isWin

\* C28: a trade the simulator opens at a tick, with the live trader ready, has its
\* open order for that market and side sent to the venue by that tick
C28_OpenMirrored ==
  [][\A sym \in SYMBOLS :
       (lastOp' = "tick" /\ ready /\ openedCount'[sym] > openedCount[sym])
         => LET before == orderCalls[MarketSymbolOf(sym)]
                after == orderCalls'[MarketSymbolOf(sym)]
            IN /\ Len(after) > Len(before)
               /\ after[Len(after)].kind = "open"
               /\ after[Len(after)].stage = "entry"
               /\ after[Len(after)].side = simStateBySymbol'[sym].activeTrade.side]_vars

\* C29: once no order call and no positionRisk request is pending, a symbol the
\* simulator holds no trade in has no position at the venue
C29_NoOrphanPosition ==
  \A sym \in SYMBOLS :
    (/\ simStateBySymbol[sym].activeTrade = NullRec
     /\ orderCalls[MarketSymbolOf(sym)] = << >>
     /\ positionRiskInFlight = << >>)
      => venuePosition[MarketSymbolOf(sym)] = 0

\* whether side is the one C30 names for row p: from the sign of positionAmt in
\* one-way mode, from positionSide in hedge mode
SideAsReported(side, p, dual) ==
  IF dual
    THEN /\ p.positionSide = "LONG" => side = "long"
         /\ p.positionSide = "SHORT" => side = "short"
    ELSE side = (IF p.positionAmt > 0 THEN "long" ELSE "short")

\* C30: after syncPositions met an array of rows, activePositions and
\* positionSnapshot hold exactly the markets reported with a non-zero positionAmt,
\* whatever they held before, each with the side and quantity of a reported row
\* of the market (side by sign in one-way mode, by positionSide in hedge mode),
\* and the two maps agree on sides and quantities; after a failure or a non-array
\* both maps are as before
C30_SyncRebuilds ==
  [][lastSync'.count > lastSync.count =>
       IF lastSync'.answer.kind = "rows"
         THEN \A sym \in LiveMarkets :
                LET rows == lastSync'.answer.rows
                    reported == {i \in DOMAIN rows :
                                   rows[i].symbol = sym /\ rows[i].positionAmt # 0}
                    active == activePositions'[sym]
                    snapshot == positionSnapshot'[sym]
                IN /\ (active # NullRec) <=> (reported # {})
                   /\ (snapshot # NullRec) <=> (reported # {})
                   /\ reported # {} =>
                        /\ \E i \in reported :
                             /\ SideAsReported(active.side, rows[i], isDualSidePosition)
                             /\ active.quantity = Abs(rows[i].positionAmt)
                        /\ snapshot.side = active.side
                        /\ snapshot.quantity = active.quantity
         ELSE /\ activePositions' = activePositions
              /\ positionSnapshot' = positionSnapshot]_vars

\* a second sync in hedge mode that drops a tracked market and records, for the
\* other, a short position reported with a positive amount
C30_Witness ==
  /\ lastSync.count = 2
  /\ lastSync.answer.kind = "rows"
  /\ isDualSidePosition
  /\ "1000FLOKIUSDT" \in lastSync.tracked
  /\ activePositions["1000FLOKIUSDT"] = NullRec
  /\ activePositions["1000PEPEUSDT"] = [side |-> "short", quantity |-> 1000]
  /\ positionSnapshot["1000PEPEUSDT"].side = "short"

\* C31: once the venue rejected the post-only order of a call, with code -5022
\* or -2010 and gtxFallbackMarket set the call has placed one MARKET order for
\* its whole quantity; with one of these codes and gtxFallbackMarket unset it
\* returned null with lastError set, no MARKET order and no position
\* registered; with any other code it placed no MARKET order
C31_PostOnlyFallback ==
  LET code == gtxCall.createCode
  IN code # 0 =>
       IF code \in {-5022, -2010} /\ gtxFallbackMarket
         THEN gtxVenue.marketOrders = <<gtxCall.qty>>
         ELSE /\ gtxVenue.marketOrders = << >>
              /\ gtxCall.returned = "null"
              /\ lastError = ErrorTag("open")
              /\ activePositions[gtxCall.symbol] = NullRec

\* a call whose post-only order was rejected with -2010 returned the result of
\* its MARKET order
C31_Witness ==
  /\ gtxCall.createCode = -2010
  /\ gtxFallbackMarket
  /\ gtxCall.returned = "result"
  /\ gtxVenue.marketExecuted = gtxCall.qty
  /\ activePositions[gtxCall.symbol] # NullRec

\* C32: after a Trade frame with qty > 0 and a finite timestamp was applied, no
\* entry of the symbol's trade window is older than the newest entry of the
\* window by more than FLOW_LOOKBACK_MS
C32_WindowWithinLookback ==
  [][(/\ lastOp' = "message"
      /\ lastEvent'.e = "trade"
      /\ IsFinite(lastEvent'.q) /\ lastEvent'.q > 0
      /\ IsFinite(lastEvent'.T))
     => \A sym \in SYMBOLS :
          LET window == symbolState'[sym].aggTrades
          IN \A i, j \in DOMAIN window : window[i].ts >= window[j].ts - FLOW_LOOKBACK_MS]_vars

\* C33: no step lowers incomeCursorTs, and the step in which syncIncome processes
\* a response leaves it at the larger of the cursor it found and the largest
\* time among the response's rows of configured markets, plus one
C33_CursorAdvances ==
  [][/\ incomeCursorTs' >= incomeCursorTs
     /\ (incomeTrace'.op = "response" /\ Len(incomeInFlight') < Len(incomeInFlight))
          => LET rows == incomeTrace'.rows
                 times == {rows[i].time : i \in {j \in DOMAIN rows :
                                                   rows[j].symbol \in ConfiguredMarkets}}
                            \cup {incomeCursorTs}
             IN incomeCursorTs' = (CHOOSE t \in times : \A u \in times : u <= t) + 1]_vars

\* the response to a request that left before a later response moved the cursor:
\* its rows are all older than the cursor it finds
C33_Witness ==
  /\ incomeTrace.op = "response"
  /\ incomeTrace.rows # << >>
  /\ \A i \in DOMAIN incomeTrace.rows :
       /\ incomeTrace.rows[i].symbol \in ConfiguredMarkets
       /\ incomeTrace.rows[i].time + 2 < incomeCursorTs

\* ---------------------------------------------------------------------------
\* C34: in every reachable SimState, stats.total = stats.wins + stats.losses =
\* the number of trades closed so far; history holds the most recent
\* min(total, 30) closed trades in closing order; lastClosed is the last element
\* of history and is null exactly when total = 0
C34_HistoryAndStats ==
  \A sym \in SYMBOLS :
    LET sim == simStateBySymbol[sym]
        log == closedLog[sym]
        kept == Min(sim.stats.total, 30)
    IN /\ sim.stats.total = sim.stats.wins + sim.stats.losses
       /\ sim.stats.total = Len(log)
       /\ sim.stats.wins = Cardinality({i \in DOMAIN log : log[i].isWin})
       /\ sim.history = SubSeq(log, Len(log) - kept + 1, Len(log))
       /\ (sim.lastClosed = NullRec) <=> (sim.stats.total = 0)
       /\ sim.stats.total > 0 => sim.lastClosed = sim.history[Len(sim.history)]

\* more trades were closed than the history keeps, a win among the kept ones
C34_Witness ==
  \E sym \in SYMBOLS :
    /\ simStateBySymbol[sym].stats.total > 30
    /\ simStateBySymbol[sym].stats.wins = 1
    /\ Len(simStateBySymbol[sym].history) = 30
    /\ \E i \in 1..30 : simStateBySymbol[sym].history[i].isWin
    /\ closedLog[sym][1] # simStateBySymbol[sym].history[1]

\* ---------------------------------------------------------------------------
\* C35: in the futures bot of index.js, after updateFuturesBot closes the
\* symbol's trade with reason HARD_CUT at tick t, no new trade of the symbol is
\* opened before tick t + max(cooldownAfterAnyCloseTicks, cooldownAfterLossTicks
\* if the trade lost, the symbol's cooldownAfterHardCutTicks)
C35_HardCutCooldown ==
  (/\ lastFuturesClose # NullRec
   /\ lastFuturesClose.reason = "HARD_CUT"
   /\ futuresBotState.activeTrade # NullRec)
    => futuresBotState.activeTrade.entryTick >=
         lastFuturesClose.tick
           + Max(Max(FUTURES_BOT_CONFIG.cooldownAfterAnyCloseTicks,
                     IF lastFuturesClose.isWin THEN 0
                     ELSE FUTURES_BOT_CONFIG.cooldownAfterLossTicks),
                 FUTURES_BOT_CONFIG.cooldownAfterHardCutTicks[BOT_SYMBOL])

\* ---------------------------------------------------------------------------
\* C36: if openPosition returns null, no order of that call was filled at the
\* venue, in full or in part, also when the reconciliation after the order or a
\* fallback order fails
C36_NullMeansNoFill ==
  [][(gtxCall.returned # "null" /\ gtxCall'.returned = "null")
       => gtxVenue'.limit.executedQty + gtxVenue'.marketExecuted = 0]_vars

\* the quantity the orders of the call can still be or have been filled for
RECURSIVE SeqSum(_)
SeqSum(q) == IF q = << >> THEN 0 ELSE Head(q) + SeqSum(Tail(q))

FillableQty ==
  (IF gtxVenue.limit.status \in {"NEW", "PARTIALLY_FILLED"} THEN gtxCall.qty
   ELSE gtxVenue.limit.executedQty) + SeqSum(gtxVenue.marketOrders)

\* C37: for one openPosition call in LIMIT_GTX mode, the quantity that can be
\* filled at the venue by the orders the call placed (the post-only order and
\* any MARKET fallback) never exceeds the normalized requested quantity, under
\* every outcome of the status and cancel requests
C37_FillableWithinRequested ==
  gtxCall.pc # "none" => FillableQty <= gtxCall.qty

\* ---------------------------------------------------------------------------
\* C38: the effective leverage used to size the live orders of a symbol (the
\* saved value when it is positive, the configured target otherwise) is always
\* an integer in [1, min(20, configured target leverage)], after the
\* negotiation of bootstrap and after any number of reconciliations
C38_LeverageWithinTarget ==
  \A sym \in LiveMarkets :
    LET saved == effectiveLeverageBySymbol[sym]
        leverage == IF saved # Null /\ saved > 0 THEN saved ELSE traderLeverage
    IN leverage \in 1..Min(20, traderLeverage)

\* ---------------------------------------------------------------------------
\* C39: after a reconnect, the watchdog does not force-close the newly opened
\* connection before WS_STALE_TIMEOUT_MS has gone by on that connection: a
\* connection is never closed as stale on the strength of the last message time
\* of the connection before it
C39_FreshConnectionNotStale ==
  (/\ ws # NullRec
   /\ ws.readyState = "CLOSING"
   /\ ws.closeCode = STALE_CLOSE_CODE)
    => wsClock - wsTrace.openedAt >= WS_STALE_TIMEOUT_MS

\* ---------------------------------------------------------------------------
\* C40: under any interleaving of open, error, close, watchdog and timer events at
\* most one reconnect timer is pending and at most one websocket is CONNECTING
\* or OPEN; the timer and the socket the module variables hold are the only
\* ones, and a timer is pending only while no socket exists, so that
\* connectWebSocket never meets a connecting or open socket and
\* scheduleReconnect never meets a pending timer
C40_OneTimerOneSocket ==
  /\ wsTrace.timers \in {0, 1}
  /\ wsTrace.sockets \in {0, 1}
  /\ (wsTrace.timers = 1) <=> (reconnectTimer # Null)
  /\ (wsTrace.sockets = 1) <=> (ws # NullRec /\ ws.readyState \in {"OPEN", "CONNECTING"})
  /\ reconnectTimer # Null => ws = NullRec
  /\ reconnectAttempt = wsTrace.closes

\* the watchdog closed a stale socket, its close event came and the reconnect
\* timer is pending
C40_Witness ==
  /\ reconnectTimer # Null
  /\ wsTrace.timers = 1
  /\ wsTrace.sockets = 0
  /\ wsTrace.closeCode = STALE_CLOSE_CODE
====
